---- MODULE Spec2Model ----
(***************************************************************************)
(* Road-corridor kernel of civil-threejs-simple: the horizontal alignment  *)
(* (src/src/alignment.ts), the grade evaluation and the daylight search    *)
(* (src/src/roadway.ts).                                                   *)
(*                                                                         *)
(* Numbers.  The code computes in IEEE doubles; the model computes in      *)
(* exact integers.  Horizontal lengths and coordinates count multiples of  *)
(* 1e-6 world units (Unit = one world unit), so the code's 1e-6            *)
(* thresholds are the integer 1.  The alignment is explored on IPs whose   *)
(* legs are parallel to an axis (or of zero length): there normalize(),    *)
(* dot, cross, acos and tan(theta/2) have exact values.  Interior arc      *)
(* samples, which are irrational, are placed with Bhaskara's rational      *)
(* sine; the arc's two end samples are exact.                              *)
(*                                                                         *)
(* Chainages of the grade profile are numbers w + n * 0.5e-9 with small    *)
(* integers w (world units) and n, kept as the pair [w, n]: the code's     *)
(* 1e-9 floor is the pair [0, 2].  Elevations are integers and the value   *)
(* of evalCenterZ is an exact fraction num / den of such pairs.            *)
(*                                                                         *)
(* The daylight search sees the terrain only along its ray, so heightFn    *)
(* is a height profile over the distance s: linear between the integer     *)
(* distances, possibly with a jump at one of them.  Elevations there count *)
(* quarters of a world unit.  A distance is the pair [i, n] for            *)
(* i + n / 2^24, which holds every midpoint of the 24 bisections exactly.  *)
(***************************************************************************)
EXTENDS Integers, Sequences, FiniteSets, TLC

VARIABLES
    ips,                  \* Alignment.ips
    cornerRadii,          \* Alignment.cornerRadii (a JS array with holes)
    defaultFilletRadius,  \* Alignment.defaultFilletRadius
    lineStep,             \* Alignment.lineStep
    arcStep,              \* Alignment.arcStep
    points,               \* Alignment.points, the sampled centerline
    cumulative,           \* Alignment.cumulative, the chainage of each point
    lastOp,               \* the last Alignment method called, with its arguments
    nOps,                 \* number of Alignment methods called so far
    gradeProfile,         \* the gradeProfile argument of the builders (roadway.ts)
    zStart,               \* elevation at the centerline's first point
    zEnd,                 \* elevation at the centerline's last point
    totalLength,          \* the centerline's last chainage
    sChain,               \* the chainage evalCenterZ was last called with
    centerZ,              \* what that call returned
    heightFn,             \* findDaylightIntersection: the terrain along the ray
    startZ,               \* its startZ argument
    dzPerMeter,           \* its dzPerMeter argument
    pc,                   \* where the call stands: "march", "bisect" or "done"
    s0,                   \* its local s0
    s1,                   \* its local s1
    bracketA,             \* its local a
    bracketB,             \* its local b
    iter,                 \* its loop counter i
    sStar,                \* the distance s it returns
    roadTemplate,         \* the RoadTemplate in use (the builders' template argument)
    slopeHtoV,            \* createDaylightMeshFromTwoIPs: its slopeHtoV argument
    zCenter,              \* its zCenter at the row it is working on
    ground,               \* the terrain beyond the left and the right edge of that row
    side,                 \* which search of the row is running: "left", "right", "pushed"
    dl,                   \* what the left search returned
    dr,                   \* what the right search returned
    rowZ,                 \* createCorridorFromTwoIPs: evalCenterZ(chainages[i]) of each row i
    group,                \* the THREE.Group it returns: meshes and strings by name
    daylightHtoV,         \* profile.ts: daylightHtoV
    designStartZOverride, \* profile.ts: designStartZOverride
    designEndZOverride,   \* profile.ts: designEndZOverride
    surface,              \* heightAt of ./surface, where the road samples it
    rebuilt,              \* what rebuildCorridor last built the corridor, the daylight
                          \* mesh and the volumes from: centerline, template, overrides
    closest,              \* the query and the result of the last closestPointTo
    isCreatingAlignment,  \* profile.ts: isCreatingAlignment
    createdIPs,           \* profile.ts: createdIPs
    savedAlignmentPoints, \* profile.ts: savedAlignmentPoints
    savedAlignmentIPs,    \* profile.ts: savedAlignmentIPs
    radiusPopupEl,        \* profile.ts: radiusPopupEl is not null
    radiusPopupTargetCorner, \* profile.ts: radiusPopupTargetCorner
    draggingIPIndex,      \* profile.ts: draggingIPIndex
    controlsEnabled,      \* profile.ts: controls.enabled (OrbitControls)
    enteredFrom           \* history: while creation mode is on, the alignment as it
                          \* was when the mode was entered

alignVars == <<ips, cornerRadii, defaultFilletRadius, lineStep, arcStep,
               points, cumulative, lastOp, nOps>>
gradeVars == <<gradeProfile, zStart, zEnd, totalLength, sChain, centerZ>>
dayVars == <<heightFn, startZ, dzPerMeter, pc, s0, s1, bracketA, bracketB, iter, sStar>>
rowVars == <<roadTemplate, slopeHtoV, zCenter, ground, side, dl, dr>>
corridorVars == <<rowZ, group>>
uiVars == <<isCreatingAlignment, createdIPs, savedAlignmentPoints, savedAlignmentIPs,
            radiusPopupEl, radiusPopupTargetCorner, draggingIPIndex, controlsEnabled,
            enteredFrom>>
appVars == <<daylightHtoV, designStartZOverride, designEndZOverride, surface,
             rebuilt, closest, uiVars>>
kernelVars == <<rowVars, corridorVars, appVars>>
vars == <<alignVars, gradeVars, dayVars, kernelVars>>

-----------------------------------------------------------------------------
(* Arithmetic helpers *)

Unit == 1000000

Abs(x) == IF x < 0 THEN -x ELSE x
Max(a, b) == IF a >= b THEN a ELSE b
Min(a, b) == IF a <= b THEN a ELSE b
Sgn(x) == IF x > 0 THEN 1 ELSE IF x < 0 THEN -1 ELSE 0

\* floor(a * b / c) for c > 0 and 0 <= b, without forming a * b
MulDiv(a, b, c) == (a \div c) * b + ((a % c) * b) \div c

\* Math.ceil(a / b) for a >= 0, b > 0
CeilDiv(a, b) == (a + b - 1) \div b

RECURSIVE IsqrtBS(_, _, _)
IsqrtBS(n, lo, hi) ==
    IF lo >= hi THEN lo
    ELSE LET mid == (lo + hi + 1) \div 2
         IN IF mid * mid <= n THEN IsqrtBS(n, mid, hi) ELSE IsqrtBS(n, lo, mid - 1)

\* floor(sqrt(n)), 0 <= n < 2^31
Isqrt(n) == IsqrtBS(n, 0, 46340)

\* Math.sqrt(dx*dx + dy*dy): exact when one component is 0, else rounded
\* down at a relative precision of about 1e-4
Hypot(dx, dy) ==
    LET a == Abs(dx)
        b == Abs(dy)
        mx == Max(a, b)
    IN IF b = 0 THEN a
       ELSE IF a = 0 THEN b
       ELSE IF mx < 30000 THEN Isqrt(a * a + b * b)
       ELSE IF mx < 3000000 THEN 100 * Isqrt((a \div 100) * (a \div 100) + (b \div 100) * (b \div 100))
       ELSE 10000 * Isqrt((a \div 10000) * (a \div 10000) + (b \div 10000) * (b \div 10000))

-----------------------------------------------------------------------------
(* THREE.Vector2 *)

Vec(x, y) == [x |-> x, y |-> y]
VSub(a, b) == Vec(a.x - b.x, a.y - b.y)
VAdd(a, b) == Vec(a.x + b.x, a.y + b.y)
VScale(v, k) == Vec(v.x * k, v.y * k)
VDot(a, b) == a.x * b.x + a.y * b.y
VCross(a, b) == a.x * b.y - a.y * b.x
VLength(v) == Hypot(v.x, v.y)
DistanceTo(a, b) == Hypot(a.x - b.x, a.y - b.y)

\* Vector2.normalize(): divideScalar(length() || 1)
Normalize(v) ==
    LET l == VLength(v)
    IN IF l = 0 THEN v ELSE Vec(v.x \div l, v.y \div l)

AxisParallel(v) == v.x = 0 \/ v.y = 0

\* JS arrays are 0-based: At(a, i) is a[i]
At(a, i) == a[i + 1]

-----------------------------------------------------------------------------
(* Angles.  Math.acos / Math.tan / Math.atan2 on the values they take for  *)
(* axis-parallel legs.  Angles of directions count quarter turns.          *)

HalfPiMicro == 1570796      \* Math.PI / 2 in 1e-6 rad
PiMicro == 3141593          \* Math.PI in 1e-6 rad
ThetaTol == 1000            \* 1e-3 rad
PiNum == 355                \* Math.PI ~ PiNum / PiDen
PiDen == 113
Eps6 == 1                   \* 1e-6
Eps9 == 0                   \* 1e-9, rounded down to the 1e-6 grid

\* Math.acos(c) for c in {-1, 0, 1}, in 1e-6 rad
Acos(c) == CASE c = 1 -> 0 [] c = 0 -> HalfPiMicro [] c = -1 -> PiMicro

\* Math.tan(theta / 2) for theta = pi/2
TanHalf(theta) == CASE theta = HalfPiMicro -> 1

\* Math.atan2(v.y, v.x) for an axis direction v, in quarter turns (-1 .. 2)
Atan2Q(v) ==
    CASE v.x > 0 /\ v.y = 0 -> 0
      [] v.x = 0 /\ v.y > 0 -> 1
      [] v.x < 0 /\ v.y = 0 -> 2
      [] v.x = 0 /\ v.y < 0 -> -1

\* Bhaskara's rational sine of (r / m) quarter turns, 0 <= r <= m, as a
\* fraction: exact at r = 0 and r = m
SinNum(r, m) == 4 * r * (2 * m - r)
SinDen(r, m) == 5 * m * m - r * (2 * m - r)

\* radius * Math.cos(a) and radius * Math.sin(a) for a = (k / m) quarter turns
RCosSin(radius, k, m) ==
    LET kk == k % (4 * m)
        q == kk \div m
        r == kk % m
        c == MulDiv(radius, SinNum(m - r, m), SinDen(m - r, m))
        s == MulDiv(radius, SinNum(r, m), SinDen(r, m))
    IN CASE q = 0 -> Vec(c, s)
         [] q = 1 -> Vec(-s, c)
         [] q = 2 -> Vec(-c, -s)
         [] q = 3 -> Vec(s, -c)

-----------------------------------------------------------------------------
(* alignment.ts: samplers and dedupe *)

\* the samples i = 0 .. last of a + ab * (i / (n - 1))
SampleLineFrom(a, ab, last, n) ==
    [k \in 1..(last + 1) |->
        Vec(a.x + MulDiv(ab.x, k - 1, n - 1), a.y + MulDiv(ab.y, k - 1, n - 1))]

\* sampleLine with the loop bound of sampleLineOpen: the end point is lost
sampleLineDropsEnd(a, b, step) ==
    LET ab == VSub(b, a)
        n == Max(2, CeilDiv(VLength(ab), step))
    IN SampleLineFrom(a, ab, n - 2, n)

\* sampleLine(out, a, b, step): n >= 2 samples, both ends included
sampleLine(a, b, step) ==
    LET ab == VSub(b, a)
        n == Max(2, CeilDiv(VLength(ab), step))
    IN SampleLineFrom(a, ab, n - 1, n)

\* sampleLineOpen with the loop started at i = 1: the start point is lost too
sampleLineOpenSkipFirst(a, b, step) ==
    LET ab == VSub(b, a)
        n == Max(2, CeilDiv(VLength(ab), Max(Eps9, step)))
    IN [k \in 1..(n - 2) |->
          Vec(a.x + MulDiv(ab.x, k, n - 1), a.y + MulDiv(ab.y, k, n - 1))]

\* sampleLineOpen(out, a, b, step): the same samples without the last one
sampleLineOpen(a, b, step) ==
    LET ab == VSub(b, a)
        n == Max(2, CeilDiv(VLength(ab), Max(Eps9, step)))
    IN SampleLineFrom(a, ab, n - 2, n)

\* sampleArcClosed(out, center, radius, a0, a1, samples): both ends included;
\* sample i is at the angle lerp(a0, a1, i / m), m = samples - 1, which is
\* a0 * m + (a1 - a0) * i in units of 1/m quarter turn
sampleArcClosed(center, radius, a0, a1, samples) ==
    [j \in 1..samples |->
        VAdd(center, RCosSin(radius, a0 * (samples - 1) + (a1 - a0) * (j - 1), samples - 1))]

\* the loop of dedupe over the indices lo .. hi, split in halves
RECURSIVE DedupeRange(_, _, _)
DedupeRange(pts, lo, hi) ==
    IF lo > hi THEN << >>
    ELSE IF lo = hi
         THEN (IF lo = 1 \/ pts[lo] # pts[lo - 1] THEN <<pts[lo]>> ELSE << >>)
         ELSE LET mid == (lo + hi) \div 2
              IN DedupeRange(pts, lo, mid) \o DedupeRange(pts, mid + 1, hi)

\* dedupe(pts): drop a point equal to its predecessor in pts
dedupe(pts) == DedupeRange(pts, 1, Len(pts))

approxEqual(a, b) == Abs(a.x - b.x) <= Eps9 /\ Abs(a.y - b.y) <= Eps9

RECURSIVE DedupeEpsRange(_, _, _)
DedupeEpsRange(pts, lo, hi) ==
    IF lo > hi THEN << >>
    ELSE IF lo = hi
         THEN (IF lo = 1 \/ ~approxEqual(pts[lo], pts[lo - 1]) THEN <<pts[lo]>> ELSE << >>)
         ELSE LET mid == (lo + hi) \div 2
              IN DedupeEpsRange(pts, lo, mid) \o DedupeEpsRange(pts, mid + 1, hi)

\* dedupeEps(pts): drop a point within 1e-9 of its predecessor in pts
dedupeEps(pts) == DedupeEpsRange(pts, 1, Len(pts))

\* the loop of cumulativeDistances over the indices lo .. hi, split in
\* halves: prev is cum[lo - 1]
RECURSIVE CumRange(_, _, _, _)
CumRange(pts, lo, hi, prev) ==
    IF lo > hi THEN << >>
    ELSE IF lo = hi THEN <<prev + DistanceTo(pts[lo], pts[lo - 1])>>
    ELSE LET mid == (lo + hi) \div 2
             left == CumRange(pts, lo, mid, prev)
         IN left \o CumRange(pts, mid + 1, hi, left[Len(left)])

\* cumulativeDistances(pts): [0] followed by the running sum of distances
cumulativeDistances(pts) == <<0>> \o CumRange(pts, 2, Len(pts), 0)

rotate90(v) == Vec(-v.y, v.x)

NoPoint == Vec(0, 0)

\* intersectLines(p1, d1, p2, d2): [ok |-> FALSE] is null
intersectLines(p1, d1, p2, d2) ==
    LET denom == VCross(d1, d2)
    IN IF denom = 0 THEN [ok |-> FALSE, p |-> NoPoint]
       ELSE LET dx == p2.x - p1.x
                dy == p2.y - p1.y
                t == (dx * d2.y - dy * d2.x) \div denom
            IN [ok |-> TRUE, p |-> Vec(p1.x + d1.x * t, p1.y + d1.y * t)]

-----------------------------------------------------------------------------
(* alignment.ts: buildFilletedPolylineFromIPs *)

\* a value that may be undefined: << >> is undefined, <<v>> is v
Undefined == << >>
Def(v) == <<v>>
IsDef(o) == Len(o) = 1
Val(o) == o[1]

\* a[i] of a JS array: undefined outside 0 .. length-1 and at a hole
ArrayGet(a, i) == IF i >= 0 /\ i < Len(a) THEN At(a, i) ELSE Undefined

\* a[i] = v of a JS array, i >= 0: the array grows, the gap is holes
ArraySet(a, i, v) ==
    [k \in 1..Max(Len(a), i + 1) |->
        IF k = i + 1 THEN v ELSE IF k <= Len(a) THEN a[k] ELSE Undefined]

NullCorner ==
    [arc |-> FALSE, T1 |-> NoPoint, T2 |-> NoPoint, center |-> NoPoint,
     R |-> 0, ccw |-> FALSE]

\* RadiusFor without the 1e-6 margin in tMax
RadiusForNoMargin(Rcorner, lenIn, lenOut, tanHalf) ==
    LET R0 == Max(Eps6, Rcorner)
        tNeeded == R0 * tanHalf
        tMax == Max(0, Min(lenIn, lenOut))
    IN IF tNeeded > tMax
       THEN LET R1 == tMax \div tanHalf
            IN IF R1 <= Eps6 THEN [ok |-> FALSE, R |-> R1] ELSE [ok |-> TRUE, R |-> R1]
       ELSE [ok |-> TRUE, R |-> R0]

\* lines 264-271: the radius a corner gets from the requested one; ok = FALSE
\* when the corner is left without an arc
RadiusFor(Rcorner, lenIn, lenOut, tanHalf) ==
    LET R0 == Max(Eps6, Rcorner)
        tNeeded == R0 * tanHalf
        tMax == Max(0, Min(lenIn, lenOut) - Eps6)
    IN IF tNeeded > tMax
       THEN LET R1 == tMax \div tanHalf
            IN IF R1 <= Eps6 THEN [ok |-> FALSE, R |-> R1] ELSE [ok |-> TRUE, R |-> R1]
       ELSE [ok |-> TRUE, R |-> R0]

\* lines 264: the radius requested for corner i
RequestedRadius(i, radius, radiiPerCorner) ==
    IF IsDef(ArrayGet(radiiPerCorner, i)) THEN Val(ArrayGet(radiiPerCorner, i)) ELSE radius

\* lines 249-254: the angle between the legs A->B and B->C, in 1e-6 rad
Theta(A, B, C) ==
    LET dIn == Normalize(VSub(B, A))
        dOut == Normalize(VSub(C, B))
        cosTheta == Max(-1, Min(1, VDot(dIn, dOut)))
    IN Acos(cosTheta)

\* lines 245-291: the body of the corner loop for interior IP i (0-based),
\* one local operator per group of consts of the loop body
CornerAt(ipsArg, i, radius, radiiPerCorner) ==
    LET withCenter(Ruse, s, nIn, nOut, center) ==
            IF ~center.ok THEN NullCorner
            ELSE [arc |-> TRUE,
                  T1 |-> VSub(center.p, VScale(nIn, Ruse)),
                  T2 |-> VSub(center.p, VScale(nOut, Ruse)),
                  center |-> center.p, R |-> Ruse, ccw |-> (s > 0)]
        withNormals(B, dIn, dOut, Ruse, s, nIn, nOut) ==
            withCenter(Ruse, s, nIn, nOut,
                       intersectLines(VAdd(B, VScale(nIn, Ruse)), dIn,
                                      VAdd(B, VScale(nOut, Ruse)), dOut))
        withSide(B, dIn, dOut, Ruse, s) ==
            withNormals(B, dIn, dOut, Ruse, s,
                        VScale(rotate90(dIn), s), VScale(rotate90(dOut), s))
        withRadius(B, dIn, dOut, turn, use) ==
            IF ~use.ok THEN NullCorner
            ELSE withSide(B, dIn, dOut, use.R, IF Sgn(turn) # 0 THEN Sgn(turn) ELSE 1)
        withTheta(A, B, C, dIn, dOut, theta) ==
            IF ~(theta > ThetaTol /\ theta < PiMicro - ThetaTol) THEN NullCorner
            ELSE withRadius(B, dIn, dOut, VCross(dIn, dOut),
                            RadiusFor(RequestedRadius(i, radius, radiiPerCorner),
                                      DistanceTo(A, B), DistanceTo(B, C), TanHalf(theta)))
        withLegs(A, B, C) ==
            withTheta(A, B, C, Normalize(VSub(B, A)), Normalize(VSub(C, B)), Theta(A, B, C))
    IN withLegs(At(ipsArg, i - 1), At(ipsArg, i), At(ipsArg, i + 1))

\* the corners array, indexed 0 .. n-1 (here 1 .. n); the end IPs have none
Corners(ipsArg, radius, radiiPerCorner) ==
    LET n == Len(ipsArg)
    IN [k \in 1..n |->
          IF k = 1 \/ k = n THEN NullCorner
          ELSE CornerAt(ipsArg, k - 1, radius, radiiPerCorner)]

\* lines 310-321: the samples of the arc of corner rc
ArcSamples(rc, arcStepArg) ==
    LET sampled(start, end) ==
            sampleArcClosed(rc.center, rc.R, start, end,
                            Max(2, CeilDiv(MulDiv(Abs(end - start) * rc.R, PiNum, 2 * PiDen),
                                           Max(Eps6, arcStepArg))))
        unwound(a0, a1) ==
            sampled(a0, IF rc.ccw THEN (IF a1 < a0 THEN a1 + 4 ELSE a1)
                                  ELSE (IF a1 > a0 THEN a1 - 4 ELSE a1))
    IN unwound(Atan2Q(VSub(rc.T1, rc.center)), Atan2Q(VSub(rc.T2, rc.center)))

\* lines 296-323: what the stitching loop appends for leg i (0-based)
StitchLeg(ipsArg, corners, i, lineStepArg, arcStepArg) ==
    LET n == Len(ipsArg)
        P == At(ipsArg, i)
        Q == At(ipsArg, i + 1)
        leftCorner == IF i >= 1 THEN At(corners, i) ELSE NullCorner
        rightCorner == IF i + 1 <= n - 2 THEN At(corners, i + 1) ELSE NullCorner
        segStart == IF leftCorner.arc THEN leftCorner.T2 ELSE P
        segEnd == IF rightCorner.arc THEN rightCorner.T1 ELSE Q
    IN (IF DistanceTo(segStart, segEnd) > Eps9
        THEN sampleLineOpen(segStart, segEnd, lineStepArg) ELSE << >>)
       \o (IF rightCorner.arc THEN ArcSamples(rightCorner, arcStepArg) ELSE << >>)

RECURSIVE StitchFrom(_, _, _, _, _)
StitchFrom(ipsArg, corners, i, lineStepArg, arcStepArg) ==
    IF i >= Len(ipsArg) - 1 THEN << >>
    ELSE StitchLeg(ipsArg, corners, i, lineStepArg, arcStepArg)
         \o StitchFrom(ipsArg, corners, i + 1, lineStepArg, arcStepArg)

\* the builder without its n = 1 case: a single IP gives no point
buildWithoutSingleIP(ipsArg, radius, lineStepArg, arcStepArg, radiiPerCorner) ==
    LET n == Len(ipsArg)
    IN IF n <= 1 THEN << >>
       ELSE IF n = 2 THEN dedupe(sampleLine(ipsArg[1], ipsArg[2], lineStepArg))
       ELSE dedupeEps(StitchFrom(ipsArg, Corners(ipsArg, radius, radiiPerCorner),
                                 0, lineStepArg, arcStepArg))

buildFilletedPolylineFromIPs(ipsArg, radius, lineStepArg, arcStepArg, radiiPerCorner) ==
    LET n == Len(ipsArg)
    IN IF n = 0 THEN << >>
       ELSE IF n = 1 THEN <<ipsArg[1]>>
       ELSE IF n = 2 THEN dedupe(sampleLine(ipsArg[1], ipsArg[2], lineStepArg))
       ELSE dedupeEps(StitchFrom(ipsArg, Corners(ipsArg, radius, radiiPerCorner),
                                 0, lineStepArg, arcStepArg))

-----------------------------------------------------------------------------
(* alignment.ts: class Alignment *)

P(x, y) == Vec(x * Unit, y * Unit)

\* setPolyline without the dedupe of its argument
AfterSetPolylineNoDedupe(newPoints) ==
    IF Len(newPoints) < 2
    THEN [points |-> points, cumulative |-> cumulative]
    ELSE [points |-> newPoints, cumulative |-> cumulativeDistances(newPoints)]

\* setPolyline(newPoints), lines 53-66: the points and chainages it leaves
AfterSetPolyline(newPoints) ==
    LET pts == dedupe(newPoints)
    IN IF Len(pts) < 2
       THEN [points |-> points, cumulative |-> cumulative]
       ELSE [points |-> pts, cumulative |-> cumulativeDistances(pts)]

\* "if (built.length >= 2) this.setPolyline(built)"
AfterRebuild(built) ==
    IF Len(built) >= 2 THEN AfterSetPolyline(built)
    ELSE [points |-> points, cumulative |-> cumulative]

\* lines 60-61: the centerline and its chainages are replaced
Stored(after) ==
    /\ points' = after.points
    /\ cumulative' = after.cumulative

\* ensureCornerRadiiLength(), lines 102-109, for n IPs
ensureCornerRadiiLength(old, n) ==
    LET copy == Min(Len(old), n)
    IN [k \in 1..n |-> IF k - 1 >= 1 /\ k - 1 < copy - 1 THEN old[k] ELSE Undefined]

\* constructor, lines 22-51
ConstructorIPs == <<P(-20, -5), P(10, -5), P(10, 25)>>

InitAlignment ==
    /\ ips = ConstructorIPs
    /\ cornerRadii = << >>
    /\ defaultFilletRadius = 10 * Unit
    /\ lineStep = Unit
    /\ arcStep = Unit
    /\ points = dedupe(buildFilletedPolylineFromIPs(ConstructorIPs, 10 * Unit, Unit, Unit, << >>))
    /\ cumulative = cumulativeDistances(points)
    /\ lastOp = [op |-> "constructor"]
    /\ nOps = 0

\* the number of method calls explored
MaxOps == 2

\* one more call of a method of the Alignment, from outside the class
Called ==
    /\ nOps < MaxOps
    /\ nOps' = nOps + 1
    /\ UNCHANGED <<gradeVars, dayVars, kernelVars>>

\* buildFromIPs(ips, defaultRadius, step, arcStep), lines 68-76
BuildFromIPsEffect(ipsArg, defaultRadius, step, arcStepArg) ==
    LET radii == ensureCornerRadiiLength(cornerRadii, Len(ipsArg))
    IN /\ ips' = ipsArg
       /\ cornerRadii' = radii
       /\ defaultFilletRadius' = defaultRadius
       /\ lineStep' = step
       /\ arcStep' = arcStepArg
       /\ Stored(AfterRebuild(
              buildFilletedPolylineFromIPs(ipsArg, defaultRadius, step, arcStepArg, radii)))

buildFromIPs(ipsArg, defaultRadius) ==
    /\ Called
    /\ BuildFromIPsEffect(ipsArg, defaultRadius, Unit, Unit)
    /\ lastOp' = [op |-> "buildFromIPs", ips |-> ipsArg]

\* setIPs(ips), lines 80-84: ensureCornerRadiiLength runs twice, the second
\* time inside buildFromIPs on the result of the first
SetIPsEffect(ipsArg) ==
    LET radii1 == ensureCornerRadiiLength(cornerRadii, Len(ipsArg))
        radii2 == ensureCornerRadiiLength(radii1, Len(ipsArg))
    IN /\ ips' = ipsArg
       /\ cornerRadii' = radii2
       /\ Stored(AfterRebuild(
              buildFilletedPolylineFromIPs(ipsArg, defaultFilletRadius, lineStep, arcStep, radii2)))
       /\ UNCHANGED <<defaultFilletRadius, lineStep, arcStep>>

setIPs(ipsArg) ==
    /\ Called
    /\ SetIPsEffect(ipsArg)
    /\ lastOp' = [op |-> "setIPs", ips |-> ipsArg]

\* setDefaultRadius(r), lines 88-93
setDefaultRadius(r) ==
    LET newR == Max(Eps6, r)
    IN /\ Called
       /\ defaultFilletRadius' = newR
       /\ Stored(AfterRebuild(
              buildFilletedPolylineFromIPs(ips, newR, lineStep, arcStep, cornerRadii)))
       /\ UNCHANGED <<ips, cornerRadii, lineStep, arcStep>>
       /\ lastOp' = [op |-> "setDefaultRadius", r |-> r]

\* moveIP(index, newPos), lines 95-100
MoveIPEffect(index, newPos) ==
    /\ IF index < 0 \/ index >= Len(ips)
       THEN UNCHANGED <<ips, cornerRadii, defaultFilletRadius, lineStep, arcStep, points, cumulative>>
       ELSE LET moved == [ips EXCEPT ![index + 1] = newPos]
            IN /\ ips' = moved
               /\ Stored(AfterRebuild(
                      buildFilletedPolylineFromIPs(moved, defaultFilletRadius, lineStep,
                                                   arcStep, cornerRadii)))
               /\ UNCHANGED <<cornerRadii, defaultFilletRadius, lineStep, arcStep>>

moveIP(index, newPos) ==
    /\ Called
    /\ lastOp' = [op |-> "moveIP", index |-> index, pos |-> newPos]
    /\ MoveIPEffect(index, newPos)

\* setCornerRadius(index, radius), lines 116-121
SetCornerRadiusEffect(index, radius) ==
    /\ IF index <= 0 \/ index >= Len(ips) - 1
       THEN UNCHANGED <<ips, cornerRadii, defaultFilletRadius, lineStep, arcStep, points, cumulative>>
       ELSE LET radii == ArraySet(cornerRadii, index,
                                  IF IsDef(radius) THEN Def(Max(Eps6, Val(radius))) ELSE Undefined)
            IN /\ cornerRadii' = radii
               /\ Stored(AfterRebuild(
                      buildFilletedPolylineFromIPs(ips, defaultFilletRadius, lineStep,
                                                   arcStep, radii)))
               /\ UNCHANGED <<ips, defaultFilletRadius, lineStep, arcStep>>

setCornerRadius(index, radius) ==
    /\ Called
    /\ lastOp' = [op |-> "setCornerRadius", index |-> index, radius |-> radius]
    /\ SetCornerRadiusEffect(index, radius)

\* getCornerRadius(index), lines 111-114
getCornerRadius(index) ==
    IF index <= 0 \/ index >= Len(ips) - 1 THEN Undefined ELSE ArrayGet(cornerRadii, index)

\* length(), lines 135-137
length == IF Len(cumulative) >= 1 THEN cumulative[Len(cumulative)] ELSE 0

-----------------------------------------------------------------------------
(* Inputs of the Alignment methods *)

\* every leg of an IP list is parallel to an axis or has zero length
AxisLegs(l) == \A k \in 1..(Len(l) - 1) : AxisParallel(VSub(l[k + 1], l[k]))

MovePositions ==
    {P(-20, -5), P(10, -5), P(10, 25), P(-20, 25), P(25, -5), P(2, -5), P(10, -2)}

IPLists ==
    { << >>,
      <<P(0, 0)>>,
      <<P(0, 0), P(0, 0)>>,
      <<P(0, 0), P(100, 0)>>,
      <<P(3, 4), P(3, -3)>>,
      <<P(5, 5), P(5, 5), P(5, 5)>>,
      <<P(0, 0), P(10, 0), P(20, 0)>>,
      <<P(0, 0), P(10, 0), P(4, 0)>>,
      <<P(0, 0), P(10, 0), P(10, 10), P(20, 10)>>,
      <<P(0, 0), P(10, 0), P(20, 0), P(20, 10)>>,
      <<P(0, 0), P(30, 0), P(30, 30), P(0, 30)>>,
      <<Vec(0, 0), Vec(2, 0), Vec(2, 10 * Unit), Vec(5 * Unit + 2, 10 * Unit)>>,
      <<Vec(0, 0), Vec(3, 0), Vec(3, 5 * Unit)>> }

RadiusInputs == {-Unit, 1, Unit, 3 * Unit, 10 * Unit}

NextAlignment ==
    \/ \E l \in IPLists : setIPs(l)
    \/ \E l \in IPLists, r \in {3 * Unit, 10 * Unit} : buildFromIPs(l, r)
    \/ \E r \in RadiusInputs : setDefaultRadius(r)
    \/ \E i \in -1..4, p \in MovePositions :
         /\ (i >= 0 /\ i < Len(ips)) => AxisLegs([ips EXCEPT ![i + 1] = p])
         /\ moveIP(i, p)
    \/ \E i \in -1..4, r \in {Undefined} \cup {Def(v) : v \in RadiusInputs} :
         setCornerRadius(i, r)

\* setPolyline(newPoints) called from outside the class (profile.ts:767)
setPolyline(newPoints) ==
    /\ Called
    /\ Stored(AfterSetPolyline(newPoints))
    /\ UNCHANGED <<ips, cornerRadii, defaultFilletRadius, lineStep, arcStep>>
    /\ lastOp' = [op |-> "setPolyline", pts |-> newPoints]

PolylineInputs ==
    { << >>,
      <<P(1, 1)>>,
      <<P(1, 1), P(1, 1)>>,
      <<P(0, 0), P(3, 4)>>,
      <<P(0, 0), P(0, 0), P(3, 4), P(3, 4), P(0, 0)>>,
      <<Vec(0, 0), Vec(1, 1), Vec(40000, 30000), Vec(40000, 30001)>> }

NextAlignmentAll ==
    \/ NextAlignment
    \/ \E pts \in PolylineInputs : setPolyline(pts)

-----------------------------------------------------------------------------
(* Grade evaluation: evalCenterZ of createCorridorFromTwoIPs              *)
(* (roadway.ts 614-630; the copies at 273-291, 377-393 and 479-495 are     *)
(* the same text)                                                          *)

\* the number w + n * 0.5e-9; |n| stays far below 2e9, so that the sign and
\* the equality of such numbers are decided coefficient by coefficient
Ch(w, n) == [w |-> w, n |-> n]
ChAdd(a, b) == Ch(a.w + b.w, a.n + b.n)
ChSub(a, b) == Ch(a.w - b.w, a.n - b.n)
ChScale(k, a) == Ch(k * a.w, k * a.n)
ChSgn(a) == IF a.w # 0 THEN Sgn(a.w) ELSE Sgn(a.n)
ChLeq(a, b) == ChSgn(ChSub(a, b)) <= 0
ChLess(a, b) == ChSgn(ChSub(a, b)) < 0
ChMax(a, b) == IF ChLeq(a, b) THEN b ELSE a
\* the product of two such numbers, by powers of 2e9
ChMul(a, b) == <<a.w * b.w, a.w * b.n + a.n * b.w, a.n * b.n>>

\* 1e-9, the floor of the divisor in evalCenterZ (line 623)
GradeEps == Ch(0, 2)

\* a value num / den, den > 0
Rat(z) == [num |-> Ch(0, z), den |-> Ch(0, 1)]
RatEq(p, q) == ChMul(p.num, q.den) = ChMul(q.num, p.den)

\* lerp with its two ends exchanged
lerpSwapped(x, y, tNum, tDen) ==
    [num |-> ChAdd(ChScale(y, ChSub(tDen, tNum)), ChScale(x, tNum)), den |-> tDen]

\* THREE.MathUtils.lerp(x, y, t) = (1 - t) * x + t * y for t = tNum / tDen
lerp(x, y, tNum, tDen) ==
    [num |-> ChAdd(ChScale(x, ChSub(tDen, tNum)), ChScale(y, tNum)), den |-> tDen]

\* [...gradeProfile].sort((a, b) => a.s - b.s): a stable sort by chainage
RECURSIVE SortInsert(_, _)
SortInsert(sorted, cp) ==
    IF sorted = << >> THEN <<cp>>
    ELSE IF ChLess(cp.s, sorted[Len(sorted)].s)
         THEN SortInsert(SubSeq(sorted, 1, Len(sorted) - 1), cp) \o <<sorted[Len(sorted)]>>
         ELSE sorted \o <<cp>>

\* the profile taken in the order supplied
SortByNothing(profile) == profile

RECURSIVE SortByS(_)
SortByS(profile) ==
    IF profile = << >> THEN << >>
    ELSE SortInsert(SortByS(SubSeq(profile, 1, Len(profile) - 1)), profile[Len(profile)])

\* lines 627-629: the straight line from zStart to zEnd
evalFallback(sChainArg, zS, zE, total) ==
    IF ChSgn(total) > 0 THEN lerp(zS, zE, sChainArg, total) ELSE Rat(zS)

\* evalCenterZ(sChain), lines 614-630
evalCenterZ(profile, sChainArg, zS, zE, total) ==
    IF Len(profile) >= 2
    THEN LET prof == SortByS(profile)
             hits == {i \in 1..(Len(prof) - 1) :
                         ChLeq(prof[i].s, sChainArg) /\ ChLeq(sChainArg, prof[i + 1].s)}
         IN IF ChLeq(sChainArg, prof[1].s) THEN Rat(prof[1].z)
            ELSE IF ChLeq(prof[Len(prof)].s, sChainArg) THEN Rat(prof[Len(prof)].z)
            ELSE IF hits = {} THEN evalFallback(sChainArg, zS, zE, total)
            ELSE LET i == CHOOSE h \in hits : \A g \in hits : h <= g
                     a == prof[i]
                     b == prof[i + 1]
                 IN lerp(a.z, b.z, ChSub(sChainArg, a.s), ChMax(GradeEps, ChSub(b.s, a.s)))
    ELSE evalFallback(sChainArg, zS, zE, total)

MaxProfileLen == 3

ChainageInputs == {Ch(0, 0), Ch(0, 1), Ch(0, 3), Ch(50, 0), Ch(100, 0)}
ElevationInputs == {8, 10, 12}
ControlPoints == {[s |-> c, z |-> z] : c \in ChainageInputs, z \in ElevationInputs}
QueryInputs == ChainageInputs \cup {Ch(-5, 0), Ch(0, 2), Ch(25, 0), Ch(75, 0), Ch(120, 0)}

RECURSIVE SeqsUpTo(_, _)
SeqsUpTo(S, n) ==
    IF n = 0 THEN {<< >>}
    ELSE LET shorter == SeqsUpTo(S, n - 1)
         IN shorter \cup {Append(q, x) : q \in shorter, x \in S}

\* the builders are handed a profile, in any order, and a centerline of
\* length 100 (or 0 where the profile is too short to be used)
InitGrade ==
    /\ gradeProfile \in SeqsUpTo(ControlPoints, MaxProfileLen)
    /\ zStart = 10
    /\ zEnd = 8
    /\ totalLength \in {Ch(0, 0), Ch(100, 0)}
    /\ Len(gradeProfile) >= 2 => totalLength = Ch(100, 0)
    /\ sChain = Undefined
    /\ centerZ = Undefined

InitGradeIdle ==
    /\ gradeProfile = << >>
    /\ zStart = 0
    /\ zEnd = 0
    /\ totalLength = Ch(0, 0)
    /\ sChain = Undefined
    /\ centerZ = Undefined

\* one call of evalCenterZ by a builder
EvalCenterZ(sChainArg) ==
    /\ sChain' = Def(sChainArg)
    /\ centerZ' = Def(evalCenterZ(gradeProfile, sChainArg, zStart, zEnd, totalLength))
    /\ UNCHANGED <<gradeProfile, zStart, zEnd, totalLength>>
    /\ UNCHANGED <<alignVars, dayVars, kernelVars>>

NextGrade == \E q \in QueryInputs : EvalCenterZ(q)

-----------------------------------------------------------------------------
(* Daylight search: findDaylightIntersection (roadway.ts 422-458) *)

maxDistance == 200
step == 2
BisectIterations == 24
Frac == 2 ^ BisectIterations

\* the distance i + n / Frac, 0 <= n < Frac
D(i, n) == [i |-> i, n |-> n]
DLess(p, q) == p.i < q.i \/ (p.i = q.i /\ p.n < q.n)

\* the upper end of the bracket in place of its midpoint
MidpointUpper(p, q) == q

\* m = 0.5 * (a + b), line 448 (and line 452)
Midpoint(p, q) ==
    LET si == p.i + q.i
        sn == p.n + q.n + (si % 2) * Frac
    IN D(si \div 2 + (sn \div 2) \div Frac, (sn \div 2) % Frac)

\* heightFn at the integer distance k, and its limit from the left there
heightAt(t, k) ==
    CASE t.kind = "plane" -> t.h0 + t.g * k
      [] t.kind = "bank"  -> IF k <= t.k THEN t.h0 ELSE t.h0 + t.g * (k - t.k)
      [] t.kind = "cliff" -> IF k < t.k THEN t.h0 ELSE t.h1
      [] t.kind = "spike" -> IF k = t.k THEN t.h1 ELSE t.h0

heightBefore(t, k) ==
    IF t.kind = "cliff" THEN (IF k <= t.k THEN t.h0 ELSE t.h1) ELSE heightAt(t, k)

\* f at the integer distance k, and its limit from the left there
fAt(t, z, dz, k) == z + dz * k - heightAt(t, k)
fBefore(t, z, dz, k) == z + dz * k - heightBefore(t, k)

\* f(s) = (startZ + dzPerMeter * s) - heightFn(start + dir * s) at s = d,
\* times Frac, cut off at -Frac and Frac: the search uses its sign, and the
\* properties its size where it is small.  On the unit interval after
\* d.i, f runs from fA to (but not reaching) fA + fB.
f(t, z, dz, d) ==
    LET fA == fAt(t, z, dz, d.i)
        fB == fBefore(t, z, dz, d.i + 1) - fA
    IN IF d.n = 0 THEN Sgn(fA) * Frac
       ELSE IF fA # 0 /\ (Abs(fA) > Abs(fB) \/ Sgn(fA) = Sgn(fB)) THEN Sgn(fA) * Frac
       ELSE Max(-Frac, Min(Frac, fA * Frac + fB * d.n))

\* Math.sign(f(s))
fSign(t, z, dz, d) == Sgn(f(t, z, dz, d))

\* the loop condition with the last step left out
MarchOnShort(t, z, dz, p0, p1) ==
    fSign(t, z, dz, D(p0, 0)) = fSign(t, z, dz, D(p1, 0)) /\ p1 < maxDistance - step

\* the loop condition of line 437
MarchOn(t, z, dz, p0, p1) ==
    fSign(t, z, dz, D(p0, 0)) = fSign(t, z, dz, D(p1, 0)) /\ p1 < maxDistance

\* lines 432-436: the state of a call before its first loop
DaylightCall(t, z, dz) ==
    /\ heightFn = t
    /\ startZ = z
    /\ dzPerMeter = dz
    /\ pc = "march"
    /\ s0 = 0
    /\ s1 = step
    /\ bracketA = D(0, 0)
    /\ bracketB = D(0, 0)
    /\ iter = 0
    /\ sStar = Undefined

\* lines 437-441: one round of the expansion loop
March ==
    /\ pc = "march"
    /\ MarchOn(heightFn, startZ, dzPerMeter, s0, s1)
    /\ s0' = s1
    /\ s1' = Min(maxDistance, s1 + step)
    /\ UNCHANGED <<heightFn, startZ, dzPerMeter, pc, bracketA, bracketB, iter, sStar>>
    /\ UNCHANGED <<alignVars, gradeVars, kernelVars>>

\* lines 442-446: the loop is left; a sign change starts the bisection,
\* otherwise s1 is returned
MarchEnd ==
    /\ pc = "march"
    /\ ~MarchOn(heightFn, startZ, dzPerMeter, s0, s1)
    /\ IF fSign(heightFn, startZ, dzPerMeter, D(s0, 0)) # fSign(heightFn, startZ, dzPerMeter, D(s1, 0))
       THEN /\ pc' = "bisect"
            /\ bracketA' = D(s0, 0)
            /\ bracketB' = D(s1, 0)
            /\ sStar' = sStar
       ELSE /\ pc' = "done"
            /\ sStar' = Def(D(s1, 0))
            /\ UNCHANGED <<bracketA, bracketB>>
    /\ UNCHANGED <<heightFn, startZ, dzPerMeter, s0, s1, iter>>
    /\ UNCHANGED <<alignVars, gradeVars, kernelVars>>

\* lines 447-451: one round of the bisection
Bisect ==
    /\ pc = "bisect"
    /\ iter < BisectIterations
    /\ LET m == Midpoint(bracketA, bracketB)
       IN IF fSign(heightFn, startZ, dzPerMeter, bracketA) = fSign(heightFn, startZ, dzPerMeter, m)
          THEN bracketA' = m /\ bracketB' = bracketB
          ELSE bracketB' = m /\ bracketA' = bracketA
    /\ iter' = iter + 1
    /\ UNCHANGED <<heightFn, startZ, dzPerMeter, pc, s0, s1, sStar>>
    /\ UNCHANGED <<alignVars, gradeVars, kernelVars>>

\* line 452 and the return
BisectEnd ==
    /\ pc = "bisect"
    /\ iter = BisectIterations
    /\ sStar' = Def(Midpoint(bracketA, bracketB))
    /\ pc' = "done"
    /\ UNCHANGED <<heightFn, startZ, dzPerMeter, s0, s1, bracketA, bracketB, iter>>
    /\ UNCHANGED <<alignVars, gradeVars, kernelVars>>

Terrains ==
    { [kind |-> "plane", h0 |-> 0, g |-> 0],
      [kind |-> "plane", h0 |-> 0, g |-> 1],
      [kind |-> "plane", h0 |-> 4, g |-> -2],
      [kind |-> "bank", h0 |-> 0, k |-> 10, g |-> 8],
      [kind |-> "bank", h0 |-> 0, k |-> 195, g |-> 60],
      [kind |-> "cliff", h0 |-> 0, k |-> 5, h1 |-> 40],
      [kind |-> "cliff", h0 |-> 0, k |-> 6, h1 |-> -40],
      [kind |-> "spike", h0 |-> 0, k |-> 1, h1 |-> 40],
      [kind |-> "spike", h0 |-> 0, k |-> 7, h1 |-> 40],
      [kind |-> "spike", h0 |-> 0, k |-> 8, h1 |-> -40],
      [kind |-> "spike", h0 |-> 0, k |-> 199, h1 |-> 100] }

StartElevations == {-4, 4, 199, 200}

\* 1 : slopeHtoV for the slopes 4, 2 and 1, down and up
SlopeInputs == {-4, -2, -1, 1, 2, 4}

InitDaylight ==
    \E t \in Terrains, z \in StartElevations, dz \in SlopeInputs : DaylightCall(t, z, dz)

InitDaylightIdle ==
    /\ heightFn = [kind |-> "plane", h0 |-> 0, g |-> 0]
    /\ startZ = 0
    /\ dzPerMeter = 0
    /\ pc = "done"
    /\ s0 = 0
    /\ s1 = 0
    /\ bracketA = D(0, 0)
    /\ bracketB = D(0, 0)
    /\ iter = 0
    /\ sStar = Undefined

NextDaylight == March \/ MarchEnd \/ Bisect \/ BisectEnd

-----------------------------------------------------------------------------
(* The road template (roadway.ts 4-9, profile.ts 487-496) and one row of   *)
(* createDaylightMeshFromTwoIPs (roadway.ts 511-552).                      *)
(*                                                                         *)
(* Widths and offsets count world units; elevations and thicknesses count  *)
(* quarters of a world unit, so a crossfall counts quarters per world      *)
(* unit.  The template's components object is the record of its enabled    *)
(* flags and its daylight slope, each absent or present;                   *)
(* loadRoadTemplateFromJSON copies the components' dimensions into the     *)
(* flat fields (profile.ts 603-608), which are the ones kept here.         *)

NoComponents ==
    [pavementEnabled |-> Undefined, kerbEnabled |-> Undefined,
     footpathEnabled |-> Undefined, daylightSlopeHtoV |-> Undefined]

\* template.components?.X?.enabled !== false
pavEnabled(t) == t.components.pavementEnabled # Def(FALSE)
kerbEnabled(t) == t.components.kerbEnabled # Def(FALSE)
footEnabled(t) == t.components.footpathEnabled # Def(FALSE)

\* lines 497-504
half(t) == t.laneWidth
kerbW(t) == t.kerbWidth
kerbH(t) == t.kerbHeight
footW(t) == t.footpathWidth
xfallFoot(t) == t.crossfallFootpath

\* lines 519-522: the pavement edge on the side sideSign (-1 left, +1 right)
oPav(t, sideSign) == sideSign * half(t)
zPav(t, zc, sideSign) ==
    zc + (t.crossfallLane * Sgn(oPav(t, sideSign))) * oPav(t, sideSign)

\* lines 523-524
zKerbTop(t, zc, sideSign) == zPav(t, zc, sideSign) + (IF kerbEnabled(t) THEN kerbH(t) ELSE 0)

\* lines 525-526: oLastL, oLastR
oLast(t, sideSign) ==
    IF footEnabled(t) THEN sideSign * (half(t) + kerbW(t) + footW(t))
    ELSE IF kerbEnabled(t) THEN sideSign * (half(t) + kerbW(t))
    ELSE sideSign * half(t)

\* lines 529-530: zLeftEdge, zRightEdge
zEdge(t, zc, sideSign) ==
    IF footEnabled(t) THEN zKerbTop(t, zc, sideSign) + (xfallFoot(t) * sideSign) * footW(t)
    ELSE IF kerbEnabled(t) THEN zKerbTop(t, zc, sideSign)
    ELSE zPav(t, zc, sideSign)

\* lines 535-536: Math.sign(zSurf - zEdge) || 1, zSurf the terrain at the edge
signOf(terrain, zE) ==
    IF Sgn(heightAt(terrain, 0) - zE) # 0 THEN Sgn(heightAt(terrain, 0) - zE) ELSE 1

\* the slope 1 : 1 whatever the ratio
dzdsOneToOne(r) == 4

\* line 537: dzds = 1 / Math.max(1e-6, slopeHtoV), in quarters per world
\* unit; exact for the ratios that divide 4
dzds(r) == IF r * Unit <= 1 THEN 4 * Unit ELSE 4 \div r

\* lines 453-457: heightFn at the distance d, the elevation i + per * n / Frac
zSurfAt(t, d) ==
    [i |-> heightAt(t, d.i), per |-> heightBefore(t, d.i + 1) - heightAt(t, d.i), n |-> d.n]

\* what findDaylightIntersection returns: the distance s and the elevation z
Found == [s |-> Val(sStar), z |-> zSurfAt(heightFn, Val(sStar))]

\* lines 432-436 for a call made while the program runs
DaylightCalled(t, z, dz) ==
    /\ heightFn' = t
    /\ startZ' = z
    /\ dzPerMeter' = dz
    /\ pc' = "march"
    /\ s0' = 0
    /\ s1' = step
    /\ bracketA' = D(0, 0)
    /\ bracketB' = D(0, 0)
    /\ iter' = 0
    /\ sStar' = Undefined

\* lines 511-545: the row is set up and the left search is called
RowCall(t, r, zc, g) ==
    /\ roadTemplate = t
    /\ slopeHtoV = r
    /\ zCenter = zc
    /\ ground = g
    /\ side = "left"
    /\ dl = Undefined
    /\ dr = Undefined
    /\ DaylightCall(g.left, zEdge(t, zc, -1),
                    signOf(g.left, zEdge(t, zc, -1)) * dzds(r))

\* lines 545-546: the left search has returned and the right one is called
LeftFound ==
    /\ side = "left"
    /\ pc = "done"
    /\ dl' = Def(Found)
    /\ side' = "right"
    /\ DaylightCalled(ground.right, zEdge(roadTemplate, zCenter, 1),
                      signOf(ground.right, zEdge(roadTemplate, zCenter, 1)) * dzds(slopeHtoV))
    /\ UNCHANGED <<roadTemplate, slopeHtoV, zCenter, ground, dr>>
    /\ UNCHANGED <<alignVars, gradeVars, corridorVars, appVars>>

\* lines 546-552: the right search has returned and the row's four vertices
\* are pushed
RightFound ==
    /\ side = "right"
    /\ pc = "done"
    /\ dr' = Def(Found)
    /\ side' = "pushed"
    /\ UNCHANGED <<roadTemplate, slopeHtoV, zCenter, ground, dl>>
    /\ UNCHANGED <<alignVars, gradeVars, dayVars, corridorVars, appVars>>

\* profile.ts 487-496 with integer dimensions
Template(lane, xLane, kW, kH, fW, xFoot, comps) ==
    [laneWidth |-> lane, crossfallLane |-> xLane, pavementThickness |-> 1,
     kerbWidth |-> kW, kerbHeight |-> kH, footpathWidth |-> fW,
     footpathThickness |-> 1, crossfallFootpath |-> xFoot, components |-> comps]

Flags == {Undefined, Def(FALSE)}

RowTemplates ==
    {Template(2, xLane, 1, 1, 2, xFoot,
              [NoComponents EXCEPT !.kerbEnabled = k, !.footpathEnabled = fp]) :
        xLane \in {-1, 0}, xFoot \in {-1, 0}, k \in Flags, fp \in Flags}

\* flat ground at several heights, a bank and a cliff
RowTerrains ==
    { [kind |-> "plane", h0 |-> 0, g |-> 0],
      [kind |-> "plane", h0 |-> 8, g |-> 0],
      [kind |-> "plane", h0 |-> -7, g |-> 0],
      [kind |-> "plane", h0 |-> 199, g |-> 0],
      [kind |-> "bank", h0 |-> 0, k |-> 10, g |-> 8],
      [kind |-> "cliff", h0 |-> 0, k |-> 6, h1 |-> -40] }

\* the terrain beyond the two edges: mirror images of each other, or not
Grounds ==
    {[left |-> t, right |-> t] : t \in RowTerrains}
        \cup {[left |-> [kind |-> "plane", h0 |-> 0, g |-> 0],
               right |-> [kind |-> "plane", h0 |-> 8, g |-> 0]]}

SlopeRatios == {1, 2, 4}
CenterElevations == {0, 8}

InitRow ==
    \E t \in RowTemplates, r \in SlopeRatios, zc \in CenterElevations, g \in Grounds :
        RowCall(t, r, zc, g)

InitRowIdle ==
    /\ roadTemplate = Template(2, -1, 1, 1, 2, -1, NoComponents)
    /\ slopeHtoV = 2
    /\ zCenter = 0
    /\ ground = [left |-> [kind |-> "plane", h0 |-> 0, g |-> 0],
                 right |-> [kind |-> "plane", h0 |-> 0, g |-> 0]]
    /\ side = "pushed"
    /\ dl = Undefined
    /\ dr = Undefined

NextRow == March \/ MarchEnd \/ Bisect \/ BisectEnd \/ LeftFound \/ RightFound

-----------------------------------------------------------------------------
(* createCorridorFromTwoIPs (roadway.ts 595-848): the component solids and *)
(* the top strings.  A vertex is kept as its row i, its offset o from the  *)
(* centerline along the row's normal, and its elevation z.                 *)

\* slopeAt(offset), lines 656-659
slopeAt(t, offset) == t.crossfallLane * Sgn(offset)

pavThk(t) == t.pavementThickness
footThk(t) == t.footpathThickness

Vertex(i, o, z) == [i |-> i, o |-> o, z |-> z]

\* the six indices of the two triangles of one quad, lines 702-707 (top
\* faces), 714-719 (bottom faces) and 724-730 (side walls)
TopQuad(i0, cols) == <<i0, i0 + cols, i0 + 1, i0 + 1, i0 + cols, i0 + cols + 1>>
BottomQuad(i0, cols) == <<i0, i0 + 1, i0 + cols, i0 + 1, i0 + cols + 1, i0 + cols>>
SideQuad(t0, b0, cols) == <<t0, b0, t0 + cols, t0 + cols, b0, b0 + cols>>

\* i0 of the q-th quad of the loops over r and cIdx, lines 699-702
QuadStart(q, cols) == (q \div (cols - 1)) * cols + (q % (cols - 1))

\* the loops of lines 699-709 (base 0) and 711-721 (base rows * cols)
TopFaces(rows, cols) ==
    [k \in 1..(6 * (rows - 1) * (cols - 1)) |->
        TopQuad(QuadStart((k - 1) \div 6, cols), cols)[((k - 1) % 6) + 1]]

BottomFaces(rows, cols) ==
    [k \in 1..(6 * (rows - 1) * (cols - 1)) |->
        BottomQuad(rows * cols + QuadStart((k - 1) \div 6, cols), cols)[((k - 1) % 6) + 1]]

\* side(indices, col, topOffset, botOffset), lines 723-732
sideWall(rows, cols, col) ==
    [k \in 1..(6 * (rows - 1)) |->
        SideQuad(((k - 1) \div 6) * cols + col,
                 rows * cols + ((k - 1) \div 6) * cols + col, cols)[((k - 1) % 6) + 1]]

\* the vertex k (from 0) of the top surface: row k div cols, column k mod cols
TopVertex(k, offsets, zTop) ==
    Vertex(k \div Len(offsets), offsets[(k % Len(offsets)) + 1],
           zTop[(k \div Len(offsets)) + 1][(k % Len(offsets)) + 1])

\* lines 690-694: the top vertex lowered by the thickness
Lowered(v, thickness) == [v EXCEPT !.z = v.z - thickness]

\* buildClosedStrip, lines 668-743: evalTopZAtRow(i) is zTop[i + 1]
buildClosedStrip(name, offsets, zTop, thickness) ==
    [name |-> name,
     rows |-> Len(zTop),
     cols |-> Len(offsets),
     positions |->
        [k \in 1..(2 * Len(zTop) * Len(offsets)) |->
            IF k <= Len(zTop) * Len(offsets)
            THEN TopVertex(k - 1, offsets, zTop)
            ELSE Lowered(TopVertex(k - 1 - Len(zTop) * Len(offsets), offsets, zTop), thickness)],
     indices |-> TopFaces(Len(zTop), Len(offsets)) \o BottomFaces(Len(zTop), Len(offsets))
                    \o sideWall(Len(zTop), Len(offsets), 0)
                    \o sideWall(Len(zTop), Len(offsets), Len(offsets) - 1)]

\* lines 746-750
offsetsPav(t) == <<-half(t), -t.laneWidth, 0, t.laneWidth, half(t)>>
pavementTop(t, zc) ==
    [j \in 1..5 |-> zc + slopeAt(t, offsetsPav(t)[j]) * offsetsPav(t)[j]]

\* kerbTop(i, offs, sideSign), lines 758-764, and the offsets of lines 765-766
kerbTop(t, zc, sideSign) ==
    <<zc + slopeAt(t, sideSign * half(t)) * (sideSign * half(t)),
      zc + slopeAt(t, sideSign * half(t)) * (sideSign * half(t)) + kerbH(t)>>
offsetsKerb(t, sideSign) == <<sideSign * half(t), sideSign * (half(t) + kerbW(t))>>

\* footTop(i, sideSign), lines 776-783, and the offsets of lines 784-785
footTop(t, zc, sideSign) ==
    [zInner |-> zc + slopeAt(t, sideSign * half(t)) * (sideSign * half(t)) + kerbH(t),
     zOuter |-> zc + slopeAt(t, sideSign * half(t)) * (sideSign * half(t)) + kerbH(t)
                   + (xfallFoot(t) * sideSign) * footW(t)]
offsetsFoot(t, sideSign) ==
    <<sideSign * (half(t) + kerbW(t)), sideSign * (half(t) + kerbW(t) + footW(t))>>

\* lines 809-826: the points of the top strings of one side
pavEdge(t, zs, sideSign) ==
    [i \in 1..Len(zs) |->
        Vertex(i - 1, sideSign * half(t),
               zs[i] + slopeAt(t, sideSign * half(t)) * (sideSign * half(t)))]
kerbTopString(t, zs, sideSign) ==
    [i \in 1..Len(zs) |->
        Vertex(i - 1, sideSign * (half(t) + kerbW(t)),
               zs[i] + slopeAt(t, sideSign * half(t)) * (sideSign * half(t)) + kerbH(t))]
footOut(t, zs, sideSign) ==
    [i \in 1..Len(zs) |->
        Vertex(i - 1, sideSign * (half(t) + kerbW(t) + footW(t)),
               zs[i] + slopeAt(t, sideSign * half(t)) * (sideSign * half(t)) + kerbH(t)
                   + (xfallFoot(t) * sideSign) * footW(t))]

buildString(pts, name) == [name |-> name, points |-> pts]

\* the children of the group in the order they are added, lines 751-846
CorridorOf(t, zs) ==
    IF Len(zs) < 2 THEN << >>
    ELSE (IF pavEnabled(t)
          THEN <<buildClosedStrip("pavement", offsetsPav(t),
                                  [i \in 1..Len(zs) |-> pavementTop(t, zs[i])], pavThk(t))>>
          ELSE << >>)
         \o (IF kerbEnabled(t)
             THEN <<buildClosedStrip("kerbL", offsetsKerb(t, -1),
                                     [i \in 1..Len(zs) |-> kerbTop(t, zs[i], -1)],
                                     Max(pavThk(t), footThk(t))),
                    buildClosedStrip("kerbR", offsetsKerb(t, 1),
                                     [i \in 1..Len(zs) |-> kerbTop(t, zs[i], 1)],
                                     Max(pavThk(t), footThk(t)))>>
             ELSE << >>)
         \o (IF footEnabled(t)
             THEN <<buildClosedStrip("footpathL", offsetsFoot(t, -1),
                                     [i \in 1..Len(zs) |->
                                         <<footTop(t, zs[i], -1).zInner,
                                           footTop(t, zs[i], -1).zOuter>>], footThk(t)),
                    buildClosedStrip("footpathR", offsetsFoot(t, 1),
                                     [i \in 1..Len(zs) |->
                                         <<footTop(t, zs[i], 1).zInner,
                                           footTop(t, zs[i], 1).zOuter>>], footThk(t))>>
             ELSE << >>)
         \o <<buildString(pavEdge(t, zs, -1), "stringPavEdgeL"),
              buildString(pavEdge(t, zs, 1), "stringPavEdgeR")>>
         \o (IF kerbEnabled(t)
             THEN <<buildString(kerbTopString(t, zs, -1), "stringKerbTopL"),
                    buildString(kerbTopString(t, zs, 1), "stringKerbTopR")>>
             ELSE << >>)
         \o (IF footEnabled(t)
             THEN <<buildString(footOut(t, zs, -1), "stringFootOutL"),
                    buildString(footOut(t, zs, 1), "stringFootOutR")>>
             ELSE << >>)

\* one call of createCorridorFromTwoIPs
createCorridorFromTwoIPs ==
    /\ group = Undefined
    /\ group' = Def(CorridorOf(roadTemplate, rowZ))
    /\ UNCHANGED <<rowZ, rowVars, appVars>>
    /\ UNCHANGED <<alignVars, gradeVars, dayVars>>

MaxRows == 3

CorridorTemplates ==
    {Template(2, xLane, 1, 1, 2, xFoot,
              [NoComponents EXCEPT !.pavementEnabled = pv, !.kerbEnabled = k,
                                   !.footpathEnabled = fp]) :
        xLane \in {-1, 0}, xFoot \in {-1, 0}, pv \in Flags, k \in Flags, fp \in Flags}

\* the centre elevations of centerlines of 1 to MaxRows points
RowElevations == SeqsUpTo({0, 4}, MaxRows) \ {<< >>}

InitCorridor ==
    /\ roadTemplate \in CorridorTemplates
    /\ rowZ \in RowElevations
    /\ group = Undefined
    /\ slopeHtoV = 2
    /\ zCenter = 0
    /\ ground = [left |-> [kind |-> "plane", h0 |-> 0, g |-> 0],
                 right |-> [kind |-> "plane", h0 |-> 0, g |-> 0]]
    /\ side = "pushed"
    /\ dl = Undefined
    /\ dr = Undefined

InitCorridorIdle ==
    /\ rowZ = << >>
    /\ group = Undefined

NextCorridor == createCorridorFromTwoIPs

-----------------------------------------------------------------------------
(* profile.ts: the volume estimator, lines 1063-1127                       *)
(* The roads here are a few micro-units long and run along the x axis;    *)
(* x and chainages are in micro-units, offsets in world units, elevations *)
(* in quarters. heightAt comes from ./surface: a terrain is any function  *)
(* of the plane, here along[x + 1] + cf * |y| + g * y.                    *)

samples == 200

\* the chainage c, in micro-units, as a chainage of the grade profile
ChOfMicro(c) == Ch(c \div Unit, (c % Unit) * 2000)

\* heightAt(x, y) on the centerline (y = 0)
centerHeight(terr, x) == terr.along[x + 1]

\* (samples - 1) * heightAt(x, yTimes / (samples - 1))
heightAtTimes(terr, x, yTimes) ==
    (samples - 1) * terr.along[x + 1] + terr.cf * Abs(yTimes) + terr.g * yTimes

\* the closest point of one segment a-b of the x axis to q, lines 150-160
segClosest(a, b, q) == Max(Min(a, b), Min(Max(a, b), q))

\* closestPointTo(x, 0).chainage, lines 143-177: the first segment that is
\* strictly nearer than those before it
closestChainage(pts, q) ==
    LET dist(i) == Abs(segClosest(pts[i].x, pts[i + 1].x, q) - q)
        best == CHOOSE i \in 1..(Len(pts) - 1) :
                    \A j \in 1..(Len(pts) - 1) :
                        dist(i) < dist(j) \/ (dist(i) = dist(j) /\ i <= j)
    IN cumulativeDistances(pts)[best]
       + Abs(segClosest(pts[best].x, pts[best + 1].x, q) - pts[best].x)

\* totalLen, line 1078
totalLen(pts) ==
    LET sum == cumulativeDistances(pts)[Len(pts)]
    IN IF sum = 0 THEN Unit ELSE sum

\* centerZ, lines 1075-1080, as num / den with den = totalLen:
\* lerp(zStart, zEnd, clamp(closest.chainage / totalLen, 0, 1))
estimatorCenterZ(pts, terr, px) ==
    LET tGrade(len) == Max(0, Min(len, closestChainage(pts, px)))
        lerpOver(len, c) == [num |-> centerHeight(terr, pts[1].x) * (len - c)
                                     + centerHeight(terr, pts[Len(pts)].x) * c,
                             den |-> len]
        over(len) == lerpOver(len, tGrade(len))
    IN over(totalLen(pts))

\* what the strips of one cross-section share, lines 1065-1083
SectionAt(pts, terr, t, px, dirSign) ==
    [centerZ |-> estimatorCenterZ(pts, terr, px), half |-> half(t),
     crossfallLane |-> t.crossfallLane, terr |-> terr, px |-> px, dirSign |-> dirSign]

\* (samples - 1) * oMid for strip i = 0 .. samples - 2, lines 1069-1071, 1087
oMidTimes(halfW, i) == halfW * ((2 * i + 1) - (samples - 1))

\* dz of strip i, line 1092, times (samples - 1) * totalLen
stripDz(c, i) ==
    (samples - 1) * c.centerZ.num
    + c.centerZ.den * c.crossfallLane * Abs(oMidTimes(c.half, i))
    - c.centerZ.den * heightAtTimes(c.terr, c.px, c.dirSign * oMidTimes(c.half, i))

\* area = dz * stripWidth, lines 1093-1094, times (samples - 1)^2 * totalLen
stripArea(c, i) == stripDz(c, i) * (2 * c.half)

\* "if (area > 0) fill += area; else cut += -area"
addStrip(acc, area) ==
    IF area > 0 THEN [acc EXCEPT !.fill = @ + area]
    ELSE [acc EXCEPT !.cut = @ - area]

\* cut and fill of two parts, added
addAreas(a, b) == [cut |-> a.cut + b.cut, fill |-> a.fill + b.fill]

\* the loop of lines 1084-1096 over the strips lo .. hi, the sums taken
\* half by half
RECURSIVE StripsIn(_, _, _)
StripsIn(c, lo, hi) ==
    IF lo = hi THEN addStrip([cut |-> 0, fill |-> 0], stripArea(c, lo))
    ELSE addAreas(StripsIn(c, lo, (lo + hi) \div 2),
                  StripsIn(c, ((lo + hi) \div 2) + 1, hi))

\* computeCrossSectionAreaAt(pointOnCenter, perpDir, template), lines
\* 1063-1099; cut and fill are times (samples - 1)^2 * totalLen
computeCrossSectionAreaAt(pts, terr, t, px, dirSign) ==
    StripsIn(SectionAt(pts, terr, t, px, dirSign), 0, samples - 2)

\* perp = (-tan.y, tan.x) of the segment a-b: its y component
perpSign(a, b) == Sgn(b.x - a.x)

\* every segment adds its volume, the shortest ones too
segmentVolumeNoSkip(pts, terr, t, i) ==
    LET scaled(len, areaA, areaB) == [cut |-> len * (areaA.cut + areaB.cut),
                                      fill |-> len * (areaA.fill + areaB.fill)]
    IN scaled(DistanceTo(pts[i], pts[i + 1]),
              computeCrossSectionAreaAt(pts, terr, t, pts[i].x,
                                        perpSign(pts[i], pts[i + 1])),
              computeCrossSectionAreaAt(pts, terr, t, pts[i + 1].x,
                                        perpSign(pts[i], pts[i + 1])))

\* one turn of the loop of computeVolumesEndArea, lines 1106-1119: cutVol
\* and fillVol times 2 * (samples - 1)^2 * totalLen
segmentVolume(pts, terr, t, i) ==
    LET scaled(len, areaA, areaB) == [cut |-> len * (areaA.cut + areaB.cut),
                                      fill |-> len * (areaA.fill + areaB.fill)]
    IN IF DistanceTo(pts[i], pts[i + 1]) <= Eps6 THEN [cut |-> 0, fill |-> 0]
       ELSE scaled(DistanceTo(pts[i], pts[i + 1]),
                   computeCrossSectionAreaAt(pts, terr, t, pts[i].x,
                                             perpSign(pts[i], pts[i + 1])),
                   computeCrossSectionAreaAt(pts, terr, t, pts[i + 1].x,
                                             perpSign(pts[i], pts[i + 1])))

RECURSIVE SegmentsFrom(_, _, _, _, _)
SegmentsFrom(pts, terr, t, i, acc) ==
    IF i >= Len(pts) THEN acc
    ELSE SegmentsFrom(pts, terr, t, i + 1, addAreas(acc, segmentVolume(pts, terr, t, i)))

\* the totals over their common denominator
Over(total, den) == [cut |-> total.cut, fill |-> total.fill, den |-> den]

\* the denominator of the volumes
VolumeDen(pts) == 2 * (samples - 1) * (samples - 1) * totalLen(pts)

\* computeVolumesEndArea(), lines 1101-1122: cut / den and fill / den
computeVolumesEndArea(pts, terr, t) ==
    IF Len(pts) < 2 THEN [cut |-> 0, fill |-> 0, den |-> 1]
    ELSE Over(SegmentsFrom(pts, terr, t, 1, [cut |-> 0, fill |-> 0]), VolumeDen(pts))

-----------------------------------------------------------------------------
(* profile.ts: the template, the grade overrides and their handlers        *)

\* lines 487-499: roadTemplate and daylightHtoV as the page starts
initialRoadTemplate == Template(2, -1, 1, 1, 2, -1, NoComponents)
initialDaylightHtoV == 2

\* a ?? b
OrElse(a, b) == IF IsDef(a) THEN Val(a) ELSE b

\* roadTemplate.components?.daylight?.slopeHtoV ?? daylightHtoV, line 658
slopeInUse(t, dH) == OrElse(t.components.daylightSlopeHtoV, dH)

\* zStart and zEnd of the builders, roadway.ts lines 611-612
designZStart(pts, oS) == OrElse(oS, centerHeight(surface, pts[1].x))
designZEnd(pts, oE) == OrElse(oE, centerHeight(surface, pts[Len(pts)].x))

\* evalCenterZ(chainages[i]) for every row of the centerline, as the corridor
\* sweep and the daylight builder compute it
sweepCenterZ(pts, oS, oE) ==
    [i \in 1..Len(pts) |->
        evalCenterZ(gradeProfile, ChOfMicro(cumulativeDistances(pts)[i]),
                    designZStart(pts, oS), designZEnd(pts, oE),
                    ChOfMicro(cumulativeDistances(pts)[Len(pts)]))]

\* rebuildCorridor(), lines 624-667, with the centerline, the template, the
\* overrides and the slope setting it finds: both builders are called with
\* the same grade, then updateVolumesHUD()
rebuildCorridor(pts, t, oS, oE, dH) ==
    /\ rebuilt' = [points |-> pts, template |-> t, startZ |-> oS, endZ |-> oE]
    /\ slopeHtoV' = slopeInUse(t, dH)
    /\ UNCHANGED <<gradeVars, surface, closest>>
    /\ UNCHANGED <<zCenter, ground, side, dl, dr, dayVars, corridorVars>>

\* evalCenterZ(chainages[i]) of the last rebuild, for every row
sweepZ == sweepCenterZ(rebuilt.points, rebuilt.startZ, rebuilt.endZ)

\* centerZ of computeCrossSectionAreaAt at every station, as updateVolumesHUD
\* had it computed in the last rebuild
estimatorZ ==
    [i \in 1..Len(rebuilt.points) |->
        estimatorCenterZ(rebuilt.points, surface, rebuilt.points[i].x)]

\* updateVolumesHUD(), lines 1124-1127: what computeVolumesEndArea returned
volumes == computeVolumesEndArea(rebuilt.points, surface, rebuilt.template)

\* the number of handler calls explored
MaxEdits == 2

\* one more event reaches a handler of the page
Handled ==
    /\ nOps < MaxEdits
    /\ nOps' = nOps + 1

\* finishAlignmentCreation(commit = true), lines 752-775
finishAlignmentCreation(created) ==
    /\ Handled
    /\ Len(created) >= 2
    /\ BuildFromIPsEffect(created, 10 * Unit, Unit, Unit)
    /\ lastOp' = [op |-> "finishAlignmentCreation", ips |-> created]
    /\ UNCHANGED <<roadTemplate, daylightHtoV, designStartZOverride, designEndZOverride,
                   uiVars>>
    /\ rebuildCorridor(points', roadTemplate, designStartZOverride,
                       designEndZOverride, daylightHtoV)

\* profileOverlay.onGradeChange({ startZ, endZ }), lines 686-696
onGradeChange(newStartZ, newEndZ) ==
    /\ Handled
    /\ designStartZOverride' = IF IsDef(newStartZ) THEN newStartZ ELSE designStartZOverride
    /\ designEndZOverride' = IF IsDef(newEndZ) THEN newEndZ ELSE designEndZOverride
    /\ lastOp' = [op |-> "onGradeChange", startZ |-> newStartZ, endZ |-> newEndZ]
    /\ UNCHANGED <<ips, cornerRadii, defaultFilletRadius, lineStep, arcStep,
                   points, cumulative, roadTemplate, daylightHtoV, uiVars>>
    /\ rebuildCorridor(points, roadTemplate, designStartZOverride',
                       designEndZOverride', daylightHtoV)

\* the template after Apply, lines 822-829; a field that parseFloat could
\* not read arrives as NaN (Undefined)
Applied(t, lane, cLane, dHtoV) ==
    [t EXCEPT !.laneWidth = IF IsDef(lane) /\ Val(lane) >= 0 THEN Val(lane) ELSE @,
              !.crossfallLane = IF IsDef(cLane) THEN Val(cLane) ELSE @,
              !.components.daylightSlopeHtoV =
                  IF IsDef(dHtoV) /\ Val(dHtoV) > 0 THEN dHtoV ELSE @]

\* the click handler of btnApply, lines 818-831
btnApply(lane, cLane, dHtoV) ==
    /\ Handled
    /\ roadTemplate' = Applied(roadTemplate, lane, cLane, dHtoV)
    /\ daylightHtoV' = IF IsDef(dHtoV) /\ Val(dHtoV) > 0 THEN Val(dHtoV) ELSE daylightHtoV
    /\ lastOp' = [op |-> "btnApply", lane |-> lane, cLane |-> cLane, dHtoV |-> dHtoV]
    /\ UNCHANGED <<ips, cornerRadii, defaultFilletRadius, lineStep, arcStep,
                   points, cumulative, designStartZOverride, designEndZOverride, uiVars>>
    /\ rebuildCorridor(points, roadTemplate', designStartZOverride,
                       designEndZOverride, daylightHtoV')

\* the click handler of btnReset, lines 833-838
btnReset ==
    /\ Handled
    /\ roadTemplate' = initialRoadTemplate
    /\ daylightHtoV' = initialDaylightHtoV
    /\ lastOp' = [op |-> "btnReset"]
    /\ UNCHANGED <<ips, cornerRadii, defaultFilletRadius, lineStep, arcStep,
                   points, cumulative, designStartZOverride, designEndZOverride, uiVars>>
    /\ rebuildCorridor(points, roadTemplate', designStartZOverride,
                       designEndZOverride, daylightHtoV')

\* the template of lines 600-610 for a JSON document whose laneWidth and
\* crossfallLane are numbers and whose components carry no sizes of their
\* own: every other field is json.X ?? roadTemplate.X, taken as it comes
Loaded(t, json) ==
    [laneWidth |-> json.laneWidth,
     crossfallLane |-> json.crossfallLane,
     pavementThickness |-> OrElse(json.pavementThickness, t.pavementThickness),
     kerbWidth |-> OrElse(json.kerbWidth, t.kerbWidth),
     kerbHeight |-> OrElse(json.kerbHeight, t.kerbHeight),
     footpathWidth |-> OrElse(json.footpathWidth, t.footpathWidth),
     footpathThickness |-> OrElse(json.footpathThickness, t.footpathThickness),
     crossfallFootpath |-> OrElse(json.crossfallFootpath, t.crossfallFootpath),
     components |-> json.components]

\* loadRoadTemplateFromJSON(url), lines 594-619, once the document arrived
loadRoadTemplateFromJSON(json) ==
    /\ Handled
    /\ roadTemplate' = Loaded(roadTemplate, json)
    /\ daylightHtoV' = IF IsDef(json.components.daylightSlopeHtoV)
                          /\ Val(json.components.daylightSlopeHtoV) > 0
                       THEN Val(json.components.daylightSlopeHtoV)
                       ELSE daylightHtoV
    /\ lastOp' = [op |-> "loadRoadTemplateFromJSON", json |-> json]
    /\ UNCHANGED <<ips, cornerRadii, defaultFilletRadius, lineStep, arcStep,
                   points, cumulative, designStartZOverride, designEndZOverride, uiVars>>
    /\ rebuildCorridor(points, roadTemplate', designStartZOverride,
                       designEndZOverride, daylightHtoV')

\* the IPs clicked for a new alignment: straight roads of two and of three
\* rows, one with a first segment of 1e-6, one that turns back on itself
CreatedIPs ==
    {<<Vec(0, 0), Vec(4, 0)>>,
     <<Vec(0, 0), Vec(2, 0), Vec(4, 0), Vec(6, 0)>>,
     <<Vec(0, 0), Vec(1, 0), Vec(3, 0), Vec(5, 0)>>,
     <<Vec(0, 0), Vec(4, 0), Vec(2, 0), Vec(6, 0)>>}

\* the terrain at x = 0 .. 6 of the centerline and across it: level, a ramp,
\* a ridge, the grade of the road that turns back, and a hillside
Surfaces ==
    {[along |-> <<4, 4, 4, 4, 4, 4, 4>>, cf |-> -1, g |-> 0],
     [along |-> <<4, 5, 6, 7, 8, 9, 10>>, cf |-> -1, g |-> 0],
     [along |-> <<4, 6, 8, 6, 4, 2, 0>>, cf |-> -1, g |-> 0],
     [along |-> <<4, 7, 10, 9, 8, 8, 8>>, cf |-> -1, g |-> 0],
     [along |-> <<4, 4, 4, 4, 4, 4, 4>>, cf |-> 0, g |-> 1]}

\* what profileOverlay.getGradeProfile() returns: nothing yet, or control
\* points at chainages 0, 2e-6 and 4e-6
GradeProfiles ==
    {<< >>,
     <<[s |-> ChOfMicro(0), z |-> 4], [s |-> ChOfMicro(2), z |-> 8],
       [s |-> ChOfMicro(4), z |-> 4]>>}

StartEdits == {Undefined, Def(6)}
EndEdits == {Undefined, Def(2)}
\* what parseFloat made of the three fields of the Settings panel: lane
\* width, lane crossfall and daylight slope, NaN (Undefined) where it failed
SettingsInputs ==
    {<<Undefined, Undefined, Undefined>>, <<Def(-1), Undefined, Def(-1)>>,
     <<Undefined, Def(0), Def(0)>>, <<Def(3), Def(0), Def(4)>>}

Json(lane, xLane, kW, fThk, comps) ==
    [laneWidth |-> lane, crossfallLane |-> xLane, pavementThickness |-> Undefined,
     kerbWidth |-> kW, kerbHeight |-> Undefined, footpathWidth |-> Undefined,
     footpathThickness |-> fThk, crossfallFootpath |-> Undefined, components |-> comps]

JsonInputs ==
    {Json(3, 0, Def(2), Undefined, [NoComponents EXCEPT !.daylightSlopeHtoV = Def(4)]),
     Json(-1, -1, Def(-1), Def(-1), NoComponents),
     Json(2, -1, Undefined, Undefined,
          [NoComponents EXCEPT !.daylightSlopeHtoV = Def(-2), !.kerbEnabled = Def(FALSE)])}

\* nothing is being created, edited or dragged: the orbit controls are on
InitUIIdle ==
    /\ isCreatingAlignment = FALSE
    /\ createdIPs = << >>
    /\ savedAlignmentPoints = Undefined
    /\ savedAlignmentIPs = Undefined
    /\ radiusPopupEl = FALSE
    /\ radiusPopupTargetCorner = Undefined
    /\ draggingIPIndex = Undefined
    /\ controlsEnabled = TRUE
    /\ enteredFrom = Undefined

\* the page with the start-up template, an alignment just created and no
\* override, rebuilt once
InitApp ==
    /\ \E created \in CreatedIPs :
          /\ ips = created
          /\ cornerRadii = ensureCornerRadiiLength(<< >>, Len(created))
          /\ points = dedupe(buildFilletedPolylineFromIPs(created, 10 * Unit, Unit, Unit,
                                                          cornerRadii))
          /\ lastOp = [op |-> "finishAlignmentCreation", ips |-> created]
    /\ defaultFilletRadius = 10 * Unit
    /\ lineStep = Unit
    /\ arcStep = Unit
    /\ cumulative = cumulativeDistances(points)
    /\ nOps = 0
    /\ surface \in Surfaces
    /\ gradeProfile \in GradeProfiles
    /\ zStart = 0
    /\ zEnd = 0
    /\ totalLength = Ch(0, 0)
    /\ sChain = Undefined
    /\ centerZ = Undefined
    /\ roadTemplate = initialRoadTemplate
    /\ daylightHtoV = initialDaylightHtoV
    /\ designStartZOverride = Undefined
    /\ designEndZOverride = Undefined
    /\ rebuilt = [points |-> points, template |-> roadTemplate,
                  startZ |-> Undefined, endZ |-> Undefined]
    /\ slopeHtoV = slopeInUse(roadTemplate, daylightHtoV)
    /\ closest = Undefined
    /\ InitUIIdle
    /\ zCenter = 0
    /\ ground = [left |-> [kind |-> "plane", h0 |-> 0, g |-> 0],
                 right |-> [kind |-> "plane", h0 |-> 0, g |-> 0]]
    /\ side = "pushed"
    /\ dl = Undefined
    /\ dr = Undefined

\* no page: the kernel is driven directly
InitAppIdle ==
    /\ daylightHtoV = initialDaylightHtoV
    /\ designStartZOverride = Undefined
    /\ designEndZOverride = Undefined
    /\ surface = [along |-> << >>, cf |-> 0, g |-> 0]
    /\ rebuilt = [points |-> << >>, template |-> initialRoadTemplate,
                  startZ |-> Undefined, endZ |-> Undefined]
    /\ closest = Undefined
    /\ InitUIIdle

CreateAlignment == \E created \in CreatedIPs : finishAlignmentCreation(created)
EditGrade ==
    \E newStartZ \in StartEdits, newEndZ \in EndEdits : onGradeChange(newStartZ, newEndZ)
ApplySettings == \E fields \in SettingsInputs : btnApply(fields[1], fields[2], fields[3])
LoadTemplate == \E json \in JsonInputs : loadRoadTemplateFromJSON(json)

NextApp == CreateAlignment \/ EditGrade \/ ApplySettings \/ btnReset \/ LoadTemplate

-----------------------------------------------------------------------------
(* alignment.ts: Alignment.closestPointTo, lines 143-177                   *)
(* Coordinates here are in units of 0.5e-6, so that two stations can be    *)
(* less than 1e-6 apart (setPolyline and the two-IP builder only drop      *)
(* coincident points). A point or a number of the result is kept as a      *)
(* numerator over the denominator abLen2.                                  *)

\* 1e-12, the floor of abLen2 (line 154), in squared units of 0.5e-6
AbLen2Floor == 4

\* lines 151-157 for the segment a-b (index i, 0-based): abLen2, t = tNum /
\* abLen2 clamped to [0, 1], p = a + ab * t, d = |p - q| (d2 = d * d *
\* abLen2 * abLen2), and the chainage cumulative[i] + sqrt(abLen2) * t
projectOnSegment(pts, cum, i, q) ==
    LET clampT(dot, abLen2) == Max(0, Min(abLen2, dot))
        at(a, ab, abLen2, tNum) ==
            [segmentIndex |-> i,
             den |-> abLen2,
             tNum |-> tNum,
             point |-> Vec(a.x * abLen2 + ab.x * tNum, a.y * abLen2 + ab.y * tNum),
             d2 |-> VDot(VSub(Vec(a.x * abLen2 + ab.x * tNum, a.y * abLen2 + ab.y * tNum),
                              VScale(q, abLen2)),
                         VSub(Vec(a.x * abLen2 + ab.x * tNum, a.y * abLen2 + ab.y * tNum),
                              VScale(q, abLen2))),
             tangent |-> [dir |-> ab, len |-> VLength(ab)],
             chainage |-> cum[i + 1] * abLen2 + Isqrt(abLen2) * tNum]
        on(a, ab, abLen2) == at(a, ab, abLen2, clampT(VDot(VSub(q, a), ab), abLen2))
        over(a, ab) == on(a, ab, Max(AbLen2Floor, VDot(ab, ab)))
    IN over(pts[i + 1], VSub(pts[i + 2], pts[i + 1]))

\* "if (d < bestDist)", line 158, for d = sqrt(d2) / den
Nearer(cand, best) ==
    IF best = Undefined THEN TRUE
    ELSE cand.d2 * Val(best).den * Val(best).den < Val(best).d2 * cand.den * cand.den

\* the loop of lines 151-167 from segment i on
RECURSIVE ScanSegments(_, _, _, _, _)
ScanSegments(pts, cum, i, q, best) ==
    IF i >= Len(pts) - 1 THEN best
    ELSE ScanSegments(pts, cum, i + 1, q,
                      IF Nearer(projectOnSegment(pts, cum, i, q), best)
                      THEN Def(projectOnSegment(pts, cum, i, q)) ELSE best)

\* closestPointTo(x, y), lines 143-177, on a centerline of two or more points
closestPointTo(pts, cum, q) == Val(ScanSegments(pts, cum, 0, q, Undefined))

\* one query of the centerline
ClosestPointTo(q) ==
    /\ closest' = Def([q |-> q, result |-> closestPointTo(points, cumulative, q)])
    /\ UNCHANGED <<daylightHtoV, designStartZOverride, designEndZOverride, surface,
                   rebuilt, uiVars>>
    /\ UNCHANGED <<alignVars, gradeVars, dayVars, rowVars, corridorVars>>

\* centerlines with stations 0.5e-6, 1e-6 and more apart, straight, bent and
\* turning back; every segment is parallel to an axis or a 3-4-5 triangle's
\* hypotenuse, so that its length is a whole number
FineCenterlines ==
    {<<Vec(0, 0), Vec(1, 0)>>,
     <<Vec(0, 0), Vec(2, 0)>>,
     <<Vec(0, 0), Vec(4, 0)>>,
     <<Vec(0, 0), Vec(3, 0), Vec(3, 1)>>,
     <<Vec(0, 0), Vec(4, 0), Vec(4, 4), Vec(1, 4)>>,
     <<Vec(0, 0), Vec(4, 3), Vec(4, 0)>>,
     <<Vec(1, 1), Vec(4, 1), Vec(2, 1)>>}

QueryPoints == {Vec(x, y) : x \in -1..5, y \in -1..5}

\* an Alignment whose centerline was set by setPolyline
InitClosest ==
    /\ ips = ConstructorIPs
    /\ cornerRadii = << >>
    /\ defaultFilletRadius = 10 * Unit
    /\ lineStep = Unit
    /\ arcStep = Unit
    /\ points \in FineCenterlines
    /\ cumulative = cumulativeDistances(points)
    /\ lastOp = [op |-> "setPolyline", pts |-> points]
    /\ nOps = 0

NextClosest == \E q \in QueryPoints : ClosestPointTo(q)

-----------------------------------------------------------------------------
(* profile.ts: alignment creation, IP drag and the radius popup,           *)
(* lines 509-590, 707-789 and 912-1028.  A handler runs to its end before  *)
(* the next event is dispatched, and one key press in the popup's input    *)
(* runs the input's listener and then the window's; so the handlers are    *)
(* functions from the page's state u to its state after them.              *)

\* the Alignment object as a value
Alignment ==
    [ips |-> ips, cornerRadii |-> cornerRadii, defaultFilletRadius |-> defaultFilletRadius,
     lineStep |-> lineStep, arcStep |-> arcStep, points |-> points, cumulative |-> cumulative]

\* setPolyline(newPoints) on the alignment a, alignment.ts 53-66
withPolyline(a, newPoints) ==
    LET keep(pts) == IF Len(pts) < 2 THEN a
                     ELSE [a EXCEPT !.points = pts, !.cumulative = cumulativeDistances(pts)]
    IN keep(dedupe(newPoints))

\* "const built = buildFilletedPolylineFromIPs(...); if (built.length >= 2)
\* this.setPolyline(built)" on the alignment a
withRebuild(a) ==
    LET keep(built) == IF Len(built) >= 2 THEN withPolyline(a, built) ELSE a
    IN keep(buildFilletedPolylineFromIPs(a.ips, a.defaultFilletRadius, a.lineStep,
                                         a.arcStep, a.cornerRadii))

\* buildFromIPs(ips, defaultRadius, step, arcStep), alignment.ts 68-76
withBuildFromIPs(a, ipsArg, defaultRadius, stepArg, arcStepArg) ==
    withRebuild([a EXCEPT !.ips = ipsArg,
                          !.cornerRadii = ensureCornerRadiiLength(a.cornerRadii, Len(ipsArg)),
                          !.defaultFilletRadius = defaultRadius,
                          !.lineStep = stepArg,
                          !.arcStep = arcStepArg])

\* setIPs(ips), alignment.ts 80-84
withIPs(a, ipsArg) ==
    withBuildFromIPs([a EXCEPT !.ips = ipsArg,
                               !.cornerRadii = ensureCornerRadiiLength(a.cornerRadii, Len(ipsArg))],
                     ipsArg, a.defaultFilletRadius, a.lineStep, a.arcStep)

\* moveIP(index, newPos), alignment.ts 95-100
withMovedIP(a, index, newPos) ==
    IF index < 0 \/ index >= Len(a.ips) THEN a
    ELSE withRebuild([a EXCEPT !.ips[index + 1] = newPos])

\* setCornerRadius(index, radius), alignment.ts 116-121
withCornerRadius(a, index, radius) ==
    IF index <= 0 \/ index >= Len(a.ips) - 1 THEN a
    ELSE withRebuild([a EXCEPT !.cornerRadii =
                                  ArraySet(a.cornerRadii, index, Def(Max(Eps6, radius)))])

\* getCornerRadius(index) of the alignment a, alignment.ts 111-114
cornerRadiusOf(a, index) ==
    IF index <= 0 \/ index >= Len(a.ips) - 1 THEN Undefined
    ELSE ArrayGet(a.cornerRadii, index)

\* getNearestCornerIndexTo(x, y), alignment.ts 123-133: the first interior IP
\* at the least distance, null (Undefined) below 3 IPs
getNearestCornerIndexTo(a, q) ==
    IF Len(a.ips) < 3 THEN Undefined
    ELSE Def(CHOOSE i \in 1..(Len(a.ips) - 2) :
                /\ \A j \in 1..(Len(a.ips) - 2) :
                      DistanceTo(q, At(a.ips, i)) <= DistanceTo(q, At(a.ips, j))
                /\ \A j \in 1..(i - 1) :
                      DistanceTo(q, At(a.ips, i)) < DistanceTo(q, At(a.ips, j)))

\* the page's state as a value
Page ==
    [alignment |-> Alignment,
     isCreatingAlignment |-> isCreatingAlignment,
     createdIPs |-> createdIPs,
     savedAlignmentPoints |-> savedAlignmentPoints,
     savedAlignmentIPs |-> savedAlignmentIPs,
     radiusPopupEl |-> radiusPopupEl,
     radiusPopupTargetCorner |-> radiusPopupTargetCorner,
     draggingIPIndex |-> draggingIPIndex,
     controlsEnabled |-> controlsEnabled,
     rebuilt |-> rebuilt,
     enteredFrom |-> enteredFrom,
     finished |-> "no"]

\* rebuildCorridor() in the page u, lines 624-667: the corridor, the daylight
\* mesh and the volumes are built from the alignment's points as they are
rebuildCorridorIn(u) ==
    [u EXCEPT !.rebuilt = [points |-> u.alignment.points, template |-> roadTemplate,
                           startZ |-> designStartZOverride, endZ |-> designEndZOverride]]

\* closeRadiusPopup(), lines 512-518
closeRadiusPopup(u) ==
    IF ~u.radiusPopupEl THEN u
    ELSE [u EXCEPT !.radiusPopupEl = FALSE,
                   !.controlsEnabled = TRUE,
                   !.radiusPopupTargetCorner = Undefined]

\* openRadiusPopup(clientX, clientY, initialRadius, cornerIndex), lines 519-590
openRadiusPopup(u, cornerIndex) ==
    [closeRadiusPopup(u) EXCEPT !.controlsEnabled = FALSE,
                                !.radiusPopupTargetCorner = Def(cornerIndex),
                                !.radiusPopupEl = TRUE]

\* setAlignmentCreateMode(on), lines 715-728
setAlignmentCreateMode(u, on) ==
    [u EXCEPT !.isCreatingAlignment = on,
              !.controlsEnabled = ~on,
              !.createdIPs = IF on THEN @ ELSE << >>]

\* the alignment after finishAlignmentCreation(commit), lines 753-770
finishedAlignment(u, commit) ==
    IF commit /\ Len(u.createdIPs) >= 2
    THEN withBuildFromIPs(u.alignment, u.createdIPs, 10 * Unit, Unit, Unit)
    ELSE IF ~commit
         THEN (IF IsDef(u.savedAlignmentIPs)
               THEN withIPs(u.alignment, Val(u.savedAlignmentIPs))
               ELSE IF IsDef(u.savedAlignmentPoints)
                    THEN withPolyline(u.alignment, Val(u.savedAlignmentPoints))
                    ELSE u.alignment)
         ELSE u.alignment

\* finishAlignmentCreation(commit), lines 752-775, in the page u
finishAlignmentCreationIn(u, commit) ==
    LET done == [u EXCEPT !.alignment = finishedAlignment(u, commit),
                          !.finished = IF commit THEN "commit" ELSE "cancel"]
        built == IF (commit /\ Len(u.createdIPs) >= 2) \/ ~commit
                 THEN rebuildCorridorIn(done) ELSE done
    IN setAlignmentCreateMode([built EXCEPT !.savedAlignmentPoints = Undefined,
                                            !.savedAlignmentIPs = Undefined], FALSE)

\* the click listener of btnAlign, lines 777-789
btnAlignClick(u) ==
    IF u.isCreatingAlignment THEN finishAlignmentCreationIn(u, FALSE)
    ELSE setAlignmentCreateMode(
             [u EXCEPT !.savedAlignmentPoints = Def(u.alignment.points),
                       !.savedAlignmentIPs = Def(u.alignment.ips),
                       !.createdIPs = << >>,
                       !.enteredFrom = Def(u.alignment)], TRUE)

\* the two mousedown listeners of the canvas in the order they were added,
\* lines 912-928 and 957-977: handle is the index of the IP handle under the
\* pointer (Undefined: none), hit the point of the plane z = 0 under it
canvasMouseDown(u, button, handle, hit) ==
    LET started == IF ~u.isCreatingAlignment /\ IsDef(handle)
                   THEN [u EXCEPT !.draggingIPIndex = handle, !.controlsEnabled = FALSE]
                   ELSE u
    IN IF ~started.isCreatingAlignment THEN started
       ELSE IF button = 0 THEN [started EXCEPT !.createdIPs = Append(@, hit)]
       ELSE IF button = 2 THEN finishAlignmentCreationIn(started, TRUE)
       ELSE started

\* the drag listener of mousemove, lines 930-945
canvasMouseMove(u, hit) ==
    IF u.draggingIPIndex = Undefined THEN u
    ELSE rebuildCorridorIn(
             [u EXCEPT !.alignment = withMovedIP(u.alignment, Val(u.draggingIPIndex), hit)])

\* endDrag(), lines 947-951, the listener of mouseup and of mouseleave
endDrag(u) ==
    IF u.draggingIPIndex = Undefined THEN u
    ELSE [u EXCEPT !.draggingIPIndex = Undefined, !.controlsEnabled = TRUE]

\* the contextmenu listener, lines 980-1012, for a hit on a vertex of the
\* centerline: closestPointTo finds the vertex itself, at distance 0
canvasContextMenu(u, hit) ==
    LET open(cornerIndex) ==
            IF IsDef(cornerIndex)
               /\ DistanceTo(At(u.alignment.ips, Val(cornerIndex)), hit) <= 2 * Unit
            THEN openRadiusPopup(u, Val(cornerIndex))
            ELSE u
    IN IF ~u.isCreatingAlignment THEN open(getNearestCornerIndexTo(u.alignment, hit))
       ELSE u

\* the keydown listener of the window, lines 1015-1028
windowKeyDown(u, key) ==
    IF u.radiusPopupEl
    THEN (IF key = "Escape" THEN closeRadiusPopup(u) ELSE u)
    ELSE IF ~u.isCreatingAlignment THEN u
    ELSE IF key = "Enter" THEN finishAlignmentCreationIn(u, TRUE)
    ELSE IF key = "Escape" THEN finishAlignmentCreationIn(u, FALSE)
    ELSE u

\* the keydown listener of the popup's input, lines 553-579: value is what
\* parseFloat made of the field (Undefined: NaN).  The popup is only ever
\* opened for a corner, so setDefaultRadius is not reached.
inputKeyDown(u, key, value) ==
    IF key = "Escape" THEN closeRadiusPopup(u)
    ELSE IF key = "Enter"
    THEN closeRadiusPopup(
             IF IsDef(value) /\ Val(value) > 0 /\ IsDef(u.radiusPopupTargetCorner)
             THEN rebuildCorridorIn(
                      [u EXCEPT !.alignment =
                          withCornerRadius(u.alignment, Val(u.radiusPopupTargetCorner),
                                           Val(value))])
             ELSE u)
    ELSE u

\* the page moves to the state u
Becomes(u) ==
    /\ ips' = u.alignment.ips
    /\ cornerRadii' = u.alignment.cornerRadii
    /\ defaultFilletRadius' = u.alignment.defaultFilletRadius
    /\ lineStep' = u.alignment.lineStep
    /\ arcStep' = u.alignment.arcStep
    /\ points' = u.alignment.points
    /\ cumulative' = u.alignment.cumulative
    /\ isCreatingAlignment' = u.isCreatingAlignment
    /\ createdIPs' = u.createdIPs
    /\ savedAlignmentPoints' = u.savedAlignmentPoints
    /\ savedAlignmentIPs' = u.savedAlignmentIPs
    /\ radiusPopupEl' = u.radiusPopupEl
    /\ radiusPopupTargetCorner' = u.radiusPopupTargetCorner
    /\ draggingIPIndex' = u.draggingIPIndex
    /\ controlsEnabled' = u.controlsEnabled
    /\ rebuilt' = u.rebuilt
    /\ enteredFrom' = IF u.isCreatingAlignment THEN u.enteredFrom ELSE Undefined
    /\ lastOp' = [op |-> "event", finished |-> u.finished]
    /\ UNCHANGED <<nOps, gradeVars, dayVars, rowVars, corridorVars>>
    /\ UNCHANGED <<daylightHtoV, designStartZOverride, designEndZOverride, surface, closest>>

\* the most IPs clicked in one creation
MaxCreated == 2

\* where the pointer is pressed while creating, and where a handle is dragged
ClickPoints == {P(0, 0), P(10, 0)}
DragPositions == {P(10, -2)}
\* what parseFloat reads from the popup's input
PopupValues == {Undefined, Def(0), Def(2 * Unit)}
Keys == {"Enter", "Escape"}

ClickAlignButton == \E u \in {btnAlignClick(Page)} : Becomes(u)

PressOnHandle ==
    \E handle \in 0..(Len(ips) - 1) :
        /\ ~isCreatingAlignment
        /\ Becomes(canvasMouseDown(Page, 0, Def(handle), At(ips, handle)))

PressWhileCreating ==
    \E button \in {0, 2}, hit \in ClickPoints :
        /\ isCreatingAlignment
        /\ button = 0 => (Len(createdIPs) < MaxCreated /\ AxisLegs(Append(createdIPs, hit)))
        /\ Becomes(canvasMouseDown(Page, button, Undefined, hit))

MovePointer ==
    \E hit \in DragPositions :
        /\ IsDef(draggingIPIndex)
        /\ Val(draggingIPIndex) < Len(ips) =>
              AxisLegs([ips EXCEPT ![Val(draggingIPIndex) + 1] = hit])
        /\ Becomes(canvasMouseMove(Page, hit))

ReleasePointer ==
    /\ IsDef(draggingIPIndex)
    /\ Becomes(endDrag(Page))

RightClickCenterline ==
    \E k \in 1..Len(points) :
        /\ ~isCreatingAlignment
        /\ Becomes(canvasContextMenu(Page, points[k]))

KeyInWindow ==
    \E key \in Keys :
        /\ radiusPopupEl \/ isCreatingAlignment
        /\ Becomes(windowKeyDown(Page, key))

\* a key pressed in the popup's input: its listener, then the window's
KeyInPopup ==
    \E key \in Keys, value \in PopupValues :
        /\ radiusPopupEl
        /\ Becomes(windowKeyDown(inputKeyDown(Page, key, value), key))

\* the page as it starts: the constructor's alignment, built once
InitUI ==
    /\ InitAlignment
    /\ roadTemplate = initialRoadTemplate
    /\ daylightHtoV = initialDaylightHtoV
    /\ designStartZOverride = Undefined
    /\ designEndZOverride = Undefined
    /\ surface = [along |-> << >>, cf |-> 0, g |-> 0]
    /\ rebuilt = [points |-> points, template |-> roadTemplate,
                  startZ |-> Undefined, endZ |-> Undefined]
    /\ slopeHtoV = slopeInUse(roadTemplate, daylightHtoV)
    /\ closest = Undefined
    /\ InitUIIdle
    /\ zCenter = 0
    /\ ground = [left |-> [kind |-> "plane", h0 |-> 0, g |-> 0],
                 right |-> [kind |-> "plane", h0 |-> 0, g |-> 0]]
    /\ side = "pushed"
    /\ dl = Undefined
    /\ dr = Undefined

NextUI ==
    \/ ClickAlignButton
    \/ PressOnHandle
    \/ PressWhileCreating
    \/ MovePointer
    \/ ReleasePointer
    \/ RightClickCenterline
    \/ KeyInWindow
    \/ KeyInPopup

-----------------------------------------------------------------------------
(* Specifications *)

\* the Alignment after its constructor, no builder called
InitOfAlignment ==
    InitAlignment /\ InitGradeIdle /\ InitDaylightIdle /\ InitRowIdle /\ InitCorridorIdle
    /\ InitAppIdle

SpecAlignment == InitOfAlignment /\ [][NextAlignment]_vars

\* the Alignment with every public mutator, setPolyline included
SpecAlignmentAll == InitOfAlignment /\ [][NextAlignmentAll]_vars

\* a builder called with a grade profile
InitOfGrade ==
    InitGrade /\ InitAlignment /\ InitDaylightIdle /\ InitRowIdle /\ InitCorridorIdle
    /\ InitAppIdle

SpecGrade == InitOfGrade /\ [][NextGrade]_vars

\* findDaylightIntersection called by a builder
InitOfDaylight ==
    InitDaylight /\ InitAlignment /\ InitGradeIdle /\ InitRowIdle /\ InitCorridorIdle
    /\ InitAppIdle

SpecDaylight == InitOfDaylight /\ [][NextDaylight]_vars

\* createDaylightMeshFromTwoIPs at work on one row
InitOfRow == InitRow /\ InitAlignment /\ InitGradeIdle /\ InitCorridorIdle /\ InitAppIdle

SpecRow == InitOfRow /\ [][NextRow]_vars

\* createCorridorFromTwoIPs called once
InitOfCorridor ==
    InitCorridor /\ InitAlignment /\ InitGradeIdle /\ InitDaylightIdle /\ InitAppIdle

\* a call of findDaylightIntersection runs to its return: the function is
\* synchronous and nothing else is scheduled between its steps
SpecDaylightLive == InitOfDaylight /\ [][NextDaylight]_vars /\ WF_vars(NextDaylight)

SpecCorridor == InitOfCorridor /\ [][NextCorridor]_vars

\* closestPointTo called on a centerline
InitOfClosest ==
    InitClosest /\ InitGradeIdle /\ InitDaylightIdle /\ InitRowIdle /\ InitCorridorIdle
    /\ InitAppIdle

SpecClosest == InitOfClosest /\ [][NextClosest]_vars

\* the page: alignment, grade and template edits, each followed by a rebuild
InitOfApp == InitApp /\ InitDaylightIdle /\ InitCorridorIdle

SpecApp == InitOfApp /\ [][NextApp]_vars

InitOfUI == InitUI /\ InitGradeIdle /\ InitDaylightIdle /\ InitCorridorIdle

SpecUI == InitOfUI /\ [][NextUI]_vars

-----------------------------------------------------------------------------
(* Properties of the alignment *)

\* what a rebuild from the stored IPs, radii and steps returns
CurBuilt ==
    buildFilletedPolylineFromIPs(ips, defaultFilletRadius, lineStep, arcStep, cornerRadii)
CurCorners == Corners(ips, defaultFilletRadius, cornerRadii)
InteriorIPs == 1..(Len(ips) - 2)
Range(seq) == {seq[k] : k \in 1..Len(seq)}
ProperAngle(th) == th > ThetaTol /\ th < PiMicro - ThetaTol

C2_CenterlineIsRebuild == points = CurBuilt

\* C3: at least 2 points, no two consecutive points equal, one chainage per
\* point, chainage 0 first, strictly increasing, length() the last chainage
C3_CenterlineWellFormed ==
    /\ Len(points) >= 2
    /\ Len(cumulative) = Len(points)
    /\ cumulative[1] = 0
    /\ \A k \in 1..(Len(points) - 1) :
          /\ points[k] # points[k + 1]
          /\ cumulative[k] <= cumulative[k + 1]
          /\ points[k] # points[k + 1] => cumulative[k] < cumulative[k + 1]
    /\ length = cumulative[Len(cumulative)]

\* C3 witness: setPolyline was given a polyline with repeated points and
\* stored it without them
C3_Witness ==
    /\ lastOp.op = "setPolyline"
    /\ Len(lastOp.pts) > Len(points)
    /\ points = dedupe(lastOp.pts)

\* C4: two distinct IPs P, Q give one straight segment: first sample P, last
\* sample Q, every sample on the line PQ and advancing from P to Q, length
\* |PQ| (100 units for (0,0)-(100,0)); the Alignment stores that segment
C4_TwoIPsStraight ==
    (Len(ips) = 2 /\ ips[1] # ips[2]) =>
        LET b == CurBuilt
            cum == cumulativeDistances(b)
            d == VSub(ips[2], ips[1])
        IN /\ Len(b) >= 2
           /\ b[1] = ips[1]
           /\ b[Len(b)] = ips[2]
           /\ \A k \in 1..Len(b) : VCross(d, VSub(b[k], ips[1])) = 0
           /\ \A k \in 1..(Len(b) - 1) :
                 /\ Sgn(b[k + 1].x - b[k].x) = Sgn(d.x)
                 /\ Sgn(b[k + 1].y - b[k].y) = Sgn(d.y)
           /\ cum[Len(cum)] = DistanceTo(ips[1], ips[2])
           /\ points = b
           /\ length = DistanceTo(ips[1], ips[2])
           /\ ips = <<P(0, 0), P(100, 0)>> => length = 100 * Unit

\* C4 witness: the IPs (0,0)-(100,0) are stored and the length is 100
C4_Witness ==
    /\ ips = <<P(0, 0), P(100, 0)>>
    /\ lastOp.op \in {"setIPs", "buildFromIPs"}
    /\ length = 100 * Unit
    /\ Len(points) = 100

\* C5 (as claimed): fewer than 2 IPs give an empty centerline
C5_FewIPsEmpty == Len(ips) < 2 => CurBuilt = << >>

\* C5 (amended): no IP gives the empty centerline, a single IP gives that IP
\* alone (a point set of zero length), and the Alignment keeps a centerline
\* of at least 2 points
C5_FewIPsDegenerate ==
    /\ Len(ips) = 0 => CurBuilt = << >>
    /\ Len(ips) = 1 => CurBuilt = <<ips[1]>>
    /\ Len(ips) < 2 => (Len(points) >= 2 /\ cumulativeDistances(CurBuilt) = <<0>>)

\* C5 witness: a single IP was handed over
C5_Witness ==
    /\ lastOp.op \in {"setIPs", "buildFromIPs"}
    /\ Len(lastOp.ips) = 1
    /\ ips = lastOp.ips

Collinear(A, B, C) ==
    /\ A # B
    /\ B # C
    /\ VCross(Normalize(VSub(B, A)), Normalize(VSub(C, B))) = 0

-----------------------------------------------------------------------------
(* Properties of the grade evaluation *)

DistinctChainages(profile) ==
    \A i, j \in 1..Len(profile) : i # j => profile[i].s # profile[j].s

\* the piecewise-linear interpolant through a set of control points with
\* distinct chainages, clamped to the first and the last of them
RefGrade(profile, q) ==
    LET cps == Range(profile)
        first == CHOOSE c \in cps : \A d \in cps : ChLeq(c.s, d.s)
        last == CHOOSE c \in cps : \A d \in cps : ChLeq(d.s, c.s)
    IN IF ChLeq(q, first.s) THEN Rat(first.z)
       ELSE IF ChLeq(last.s, q) THEN Rat(last.z)
       ELSE LET lo == CHOOSE c \in cps :
                         /\ ChLeq(c.s, q)
                         /\ \A d \in cps : ChLeq(d.s, q) => ChLeq(d.s, c.s)
                hi == CHOOSE c \in cps :
                         /\ ChLess(q, c.s)
                         /\ \A d \in cps : ChLess(q, d.s) => ChLeq(c.s, d.s)
                gap == ChSub(hi.s, lo.s)
            IN [num |-> ChAdd(ChScale(lo.z, gap), ChScale(hi.z - lo.z, ChSub(q, lo.s))),
                den |-> gap]

\* every two control points are at least 1e-9 apart in chainage
WellSpaced(profile) ==
    \A i, j \in 1..Len(profile) :
        i # j => \/ ChLeq(GradeEps, ChSub(profile[i].s, profile[j].s))
                 \/ ChLeq(GradeEps, ChSub(profile[j].s, profile[i].s))

\* C7 (as claimed): for a profile of at least 2 control points with distinct
\* chainages, in any order, the grade at the chainage of each control point
\* (s_i, z_i) is exactly z_i
C7_ControlPointRoundTrip ==
    (Len(gradeProfile) >= 2 /\ DistinctChainages(gradeProfile) /\ IsDef(sChain)) =>
        \A i \in 1..Len(gradeProfile) :
            gradeProfile[i].s = Val(sChain) => RatEq(Val(centerZ), Rat(gradeProfile[i].z))

\* C7 (amended): for a profile of at least 2 control points whose chainages
\* are pairwise at least 1e-9 apart, in any order, the grade at the chainage
\* of each control point (s_i, z_i) is exactly z_i
C7_RoundTripWhenSpaced ==
    (Len(gradeProfile) >= 2 /\ WellSpaced(gradeProfile) /\ IsDef(sChain)) =>
        \A i \in 1..Len(gradeProfile) :
            gradeProfile[i].s = Val(sChain) => RatEq(Val(centerZ), Rat(gradeProfile[i].z))

\* C7 witness: a profile of 3 spaced control points supplied out of order
\* was evaluated at its middle chainage, between two other elevations
C7_Witness ==
    /\ Len(gradeProfile) = 3
    /\ WellSpaced(gradeProfile)
    /\ SortByS(gradeProfile) # gradeProfile
    /\ IsDef(sChain)
    /\ Val(sChain) = SortByS(gradeProfile)[2].s
    /\ SortByS(gradeProfile)[1].z # SortByS(gradeProfile)[2].z
    /\ SortByS(gradeProfile)[3].z # SortByS(gradeProfile)[2].z
    /\ RatEq(Val(centerZ), Rat(SortByS(gradeProfile)[2].z))

ScenarioC == {[s |-> Ch(0, 0), z |-> 10], [s |-> Ch(50, 0), z |-> 12], [s |-> Ch(100, 0), z |-> 8]}

\* C8 (as claimed): for a profile of at least 2 control points with distinct
\* chainages, the value returned for a chainage is that of the clamped
\* piecewise-linear interpolant through the control points
C8_MatchesInterpolant ==
    (Len(gradeProfile) >= 2 /\ DistinctChainages(gradeProfile) /\ IsDef(sChain)) =>
        RatEq(Val(centerZ), RefGrade(gradeProfile, Val(sChain)))

\* C8 (amended): for a profile of at least 2 control points whose chainages
\* are pairwise at least 1e-9 apart, the value returned for a chainage is
\* that of the clamped piecewise-linear interpolant through the control
\* points: the first elevation at or before the first point, the last at or
\* after the last; (0,10), (50,12), (100,8) give 11 at 25 and 10 at 75
C8_InterpolantWhenSpaced ==
    /\ (Len(gradeProfile) >= 2 /\ WellSpaced(gradeProfile) /\ IsDef(sChain)) =>
          RatEq(Val(centerZ), RefGrade(gradeProfile, Val(sChain)))
    /\ (Len(gradeProfile) = 3 /\ Range(gradeProfile) = ScenarioC) =>
          /\ sChain = Def(Ch(25, 0)) => RatEq(Val(centerZ), Rat(11))
          /\ sChain = Def(Ch(75, 0)) => RatEq(Val(centerZ), Rat(10))

\* C8 witness: the control points (0,10), (50,12), (100,8), supplied out of
\* order, were evaluated at 25 and gave 11
C8_Witness ==
    /\ Len(gradeProfile) = 3
    /\ Range(gradeProfile) = ScenarioC
    /\ SortByS(gradeProfile) # gradeProfile
    /\ sChain = Def(Ch(25, 0))
    /\ RatEq(Val(centerZ), Rat(11))

-----------------------------------------------------------------------------
(* Properties of the daylight search *)

\* the marched samples 0, 2, ..., 200 show a sign change of f
MarchedSignChange ==
    \E j \in 1..(maxDistance \div step) :
        fSign(heightFn, startZ, dzPerMeter, D(step * j, 0))
            # fSign(heightFn, startZ, dzPerMeter, D(step * (j - 1), 0))

\* |f(s*)| * Frac, cut off at Frac
Residual == Abs(f(heightFn, startZ, dzPerMeter, Val(sStar)))

\* the terrain has no jump along the ray
Continuous(t) == t.kind # "cliff"

\* the steepest slope of f along the ray, per world unit
SteepestF ==
    LET slope(k) == Abs(fBefore(heightFn, startZ, dzPerMeter, k + 1)
                          - fAt(heightFn, startZ, dzPerMeter, k))
    IN CHOOSE v \in {slope(k) : k \in 0..(maxDistance - 1)} :
          \A k \in 0..(maxDistance - 1) : slope(k) <= v

\* a thousandth of an elevation unit
SmallTolerance == Frac \div 1000

\* C9 (as claimed): for every terrain, the returned distance s* has
\* |f(s*)| below a small tolerance, or no sign change was found and s* is 200
C9_ResidualSmallOrNotFound ==
    pc = "done" =>
        \/ Residual <= SmallTolerance
        \/ ~MarchedSignChange /\ sStar = Def(D(maxDistance, 0))

\* C9 (amended): for every terrain that is continuous along the ray, the
\* returned distance s* has |f(s*)| <= L * 2^-24, L the steepest slope of f
\* along the ray (below the small tolerance for every slope up to 16000),
\* or no sign change was found and s* is 200
C9_ResidualSmallWhenContinuous ==
    (pc = "done" /\ Continuous(heightFn)) =>
        \/ MarchedSignChange /\ Residual <= SteepestF /\ SteepestF <= SmallTolerance
        \/ ~MarchedSignChange /\ sStar = Def(D(maxDistance, 0))

\* C9 witness: on a continuous terrain a sign change was bisected 24 times
\* and the search returned a distance where f is small but not zero
C9_Witness ==
    /\ pc = "done"
    /\ Continuous(heightFn)
    /\ iter = BisectIterations
    /\ Residual > 0
    /\ Residual <= SteepestF

\* C10: without a sign change of f between marched samples the search
\* returns exactly s = 200; with one it returns a distance strictly below
\* 200; so s = 200 is returned exactly when no sign change was found
C10_NotFoundSentinel ==
    pc = "done" =>
        /\ ~MarchedSignChange => sStar = Def(D(maxDistance, 0))
        /\ MarchedSignChange => DLess(Val(sStar), D(maxDistance, 0))

\* C10 witness: the march stepped over a root of f between two samples,
\* saw no sign change up to 200 and returned s = 200
C10_Witness ==
    /\ pc = "done"
    /\ ~MarchedSignChange
    /\ s1 = maxDistance
    /\ sStar = Def(D(maxDistance, 0))
    /\ \E k \in 1..(maxDistance - 1) :
          fSign(heightFn, startZ, dzPerMeter, D(k, 0))
              # fSign(heightFn, startZ, dzPerMeter, D(0, 0))

-----------------------------------------------------------------------------
(* Properties of the daylight row *)

\* the distance after p on the grid of the bisection
DSucc(p) == IF p.n = Frac - 1 THEN D(p.i + 1, 0) ELSE D(p.i, p.n + 1)

\* two distances at most 2^-24 apart
DNear(p, q) == p = q \/ DSucc(p) = q \/ DSucc(q) = p

\* the distance q / 4 for a number q of quarters
DQuarters(q) == D(q \div 4, (q % 4) * (Frac \div 4))

Flat(terrain) == terrain.kind = "plane" /\ terrain.g = 0

\* on flat ground a height d (in quarters) from the edge elevation zE, with
\* r * d below the search distance, the search returned r * d within 2^-24
\* and the ground's elevation
FlatFound(res, terrain, zE) ==
    (Flat(terrain) /\ slopeHtoV * Abs(terrain.h0 - zE) < 4 * maxDistance) =>
        /\ DNear(res.s, DQuarters(slopeHtoV * Abs(terrain.h0 - zE)))
        /\ res.z.i = terrain.h0
        /\ res.z.per = 0

\* C11: for flat terrain a constant height d above or below the design edge
\* elevation and a slope ratio r with r * d below the maximum search
\* distance, the daylight intersection is returned at distance r * d from
\* the edge, within 2^-24, at the terrain's elevation, on the left and on
\* the right; for d = 2 below and r = 2 the distance is 4
C11_FlatDaylightDistance ==
    /\ IsDef(dl) => FlatFound(Val(dl), ground.left, zEdge(roadTemplate, zCenter, -1))
    /\ IsDef(dr) => FlatFound(Val(dr), ground.right, zEdge(roadTemplate, zCenter, 1))

\* C11 witness: scenario D, flat ground 2 world units below the left edge
\* and the ratio 2, was searched and returned the distance 4 within 2^-24
C11_Witness ==
    /\ side = "pushed"
    /\ Flat(ground.left)
    /\ zEdge(roadTemplate, zCenter, -1) - ground.left.h0 = 8
    /\ slopeHtoV = 2
    /\ DNear(Val(dl).s, D(4, 0))
    /\ Val(dl).s # D(4, 0)

\* C12 (as claimed): at a row whose terrain is mirror-symmetric about the
\* centerline (the template has the same parameters on both sides), the
\* left and right daylight start elevations, distances and elevations are
\* equal
C12_MirrorImage ==
    (side = "pushed" /\ ground.left = ground.right) =>
        /\ zEdge(roadTemplate, zCenter, -1) = zEdge(roadTemplate, zCenter, 1)
        /\ Val(dl).s = Val(dr).s
        /\ Val(dl).z = Val(dr).z

\* the offset from the centerline of the outer edge of the outermost enabled
\* component
AnchorOffset(t) ==
    t.laneWidth + (IF kerbEnabled(t) THEN t.kerbWidth ELSE 0)
                + (IF footEnabled(t) THEN t.footpathWidth ELSE 0)

\* the design top elevation there: the pavement edge, raised by the kerb
\* where enabled, continued by the footpath's crossfall over its width where
\* enabled
AnchorElevation(t, zc) ==
    zc + t.crossfallLane * t.laneWidth
       + (IF kerbEnabled(t) THEN t.kerbHeight ELSE 0)
       + (IF footEnabled(t) THEN t.crossfallFootpath * t.footpathWidth ELSE 0)

\* C16 (as claimed): for every combination of the enable flags and on each
\* side, the daylight slope starts at the offset laneWidth + (kerb enabled ?
\* kerbWidth : 0) + (footpath enabled ? footpathWidth : 0) from the
\* centerline, at the design top elevation of that outer edge
C16_DaylightAnchor ==
    side = "pushed" =>
        \A sideSign \in {-1, 1} :
            /\ oLast(roadTemplate, sideSign) = sideSign * AnchorOffset(roadTemplate)
            /\ zEdge(roadTemplate, zCenter, sideSign) = AnchorElevation(roadTemplate, zCenter)

-----------------------------------------------------------------------------
(* Properties of the corridor solids *)

\* the child of the group with the given name
HasChild(name) == \E k \in 1..Len(Val(group)) : Val(group)[k].name = name
Child(name) == Val(group)[CHOOSE k \in 1..Len(Val(group)) : Val(group)[k].name = name]

\* the top vertex of row i (from 0) and column j (from 1) of a solid
TopAt(mesh, i, j) == mesh.positions[i * mesh.cols + j]

SideName(base, sideSign) == IF sideSign < 0 THEN base \o "L" ELSE base \o "R"

\* C17 (as claimed): with the footpath enabled, on the left and on the right
\* alike, the footpath's outer-edge top elevation is its inner-edge top
\* elevation plus crossfallFootpath * footpathWidth, in every row
C17_FootpathCrossfallOutward ==
    (IsDef(group) /\ HasChild("footpathL")) =>
        \A sideSign \in {-1, 1} : \A i \in 0..(Len(rowZ) - 1) :
            TopAt(Child(SideName("footpath", sideSign)), i, 2).z
                = TopAt(Child(SideName("footpath", sideSign)), i, 1).z
                    + roadTemplate.crossfallFootpath * roadTemplate.footpathWidth

\* C18 (as claimed): in every row and on each side the footpath's inner top
\* edge (offset and elevation) is the kerb's outer top edge when the kerb is
\* enabled and the pavement's outer edge when it is disabled
C18_ComponentsCompose ==
    (IsDef(group) /\ HasChild("footpathL")) =>
        \A sideSign \in {-1, 1} : \A i \in 0..(Len(rowZ) - 1) :
            TopAt(Child(SideName("footpath", sideSign)), i, 1)
                = IF kerbEnabled(roadTemplate)
                  THEN TopAt(Child(SideName("kerb", sideSign)), i, 2)
                  ELSE Child(SideName("stringPavEdge", sideSign)).points[i + 1]

\* triangle j (from 0) of a solid, and the edges it traverses
Triangle(mesh, j) ==
    <<mesh.indices[3 * j + 1], mesh.indices[3 * j + 2], mesh.indices[3 * j + 3]>>
DirectedEdges(tri) == {<<tri[1], tri[2]>>, <<tri[2], tri[3]>>, <<tri[3], tri[1]>>}
TriangleCount(mesh) == Len(mesh.indices) \div 3
TopTriangleCount(mesh) == 2 * (mesh.rows - 1) * (mesh.cols - 1)

\* the same triangle traversed the other way round
Reversed(tri) == {<<tri[3], tri[2], tri[1]>>, <<tri[2], tri[1], tri[3]>>, <<tri[1], tri[3], tri[2]>>}

Solids == {k \in 1..Len(Val(group)) : "indices" \in DOMAIN Val(group)[k]}

Thickness(t, name) ==
    IF name = "pavement" THEN pavThk(t)
    ELSE IF name \in {"kerbL", "kerbR"} THEN Max(pavThk(t), footThk(t))
    ELSE footThk(t)

IndicesValid(mesh) ==
    \A k \in 1..Len(mesh.indices) :
        mesh.indices[k] >= 0 /\ mesh.indices[k] < Len(mesh.positions)

BottomIsLoweredTop(mesh, thickness) ==
    \A k \in 1..(mesh.rows * mesh.cols) :
        mesh.positions[k + mesh.rows * mesh.cols]
            = [mesh.positions[k] EXCEPT !.z = mesh.positions[k].z - thickness]

BottomReversesTop(mesh) ==
    \A j \in 0..(TopTriangleCount(mesh) - 1) :
        <<Triangle(mesh, TopTriangleCount(mesh) + j)[1] - mesh.rows * mesh.cols,
          Triangle(mesh, TopTriangleCount(mesh) + j)[2] - mesh.rows * mesh.cols,
          Triangle(mesh, TopTriangleCount(mesh) + j)[3] - mesh.rows * mesh.cols>>
            \in Reversed(Triangle(mesh, j))

\* no two triangles traverse an edge in the same direction
SharedEdgesOpposite(mesh) ==
    \A j1, j2 \in 0..(TriangleCount(mesh) - 1) :
        j1 < j2 => DirectedEdges(Triangle(mesh, j1)) \cap DirectedEdges(Triangle(mesh, j2)) = {}

\* C19 (as claimed): every solid built by buildClosedStrip has valid indices,
\* its bottom vertices are its top vertices lowered by the thickness, its
\* bottom faces reverse the winding of its top faces, and any two of its
\* triangles that share an edge traverse it in opposite directions
C19_ConsistentTriangulation ==
    IsDef(group) =>
        \A k \in Solids :
            /\ IndicesValid(Val(group)[k])
            /\ BottomIsLoweredTop(Val(group)[k], Thickness(roadTemplate, Val(group)[k].name))
            /\ BottomReversesTop(Val(group)[k])
            /\ SharedEdgesOpposite(Val(group)[k])

-----------------------------------------------------------------------------
(* Properties of the page: grade, template and volumes *)

\* the terrain is the swept pavement surface: at every station its height on
\* the centerline is the grade elevation of the sweep, and across the road
\* it falls as the lane does
TerrainIsDesign ==
    /\ surface.cf = roadTemplate.crossfallLane
    /\ surface.g = 0
    /\ \A i \in 1..Len(points) :
          RatEq(sweepZ[i], Rat(centerHeight(surface, points[i].x)))

\* C13 (as claimed): whenever the terrain equals the design elevation of the
\* swept corridor surface at every offset of every station, the volume
\* estimator returns cut = 0 and fill = 0, for any template and any grade
C13_NoVolumeOnDesignTerrain ==
    TerrainIsDesign => (volumes.cut = 0 /\ volumes.fill = 0)

\* the sum of seq[lo] .. seq[hi]
RECURSIVE SumSeq(_, _, _)
SumSeq(seq, lo, hi) ==
    IF lo > hi THEN 0
    ELSE IF lo = hi THEN seq[lo]
    ELSE SumSeq(seq, lo, (lo + hi) \div 2) + SumSeq(seq, ((lo + hi) \div 2) + 1, hi)

\* the signed areas (design - terrain) * stripWidth of the strips of the
\* cross-section at station k, seen from segment i
SignedAreas(i, k) ==
    LET areas(c) == [j \in 1..(samples - 1) |-> stripArea(c, j - 1)]
    IN areas(SectionAt(points, surface, roadTemplate, points[k].x,
                       perpSign(points[i], points[i + 1])))

\* the end areas: positive strips are fill, the magnitudes of the others cut
EndAreas(i, k) ==
    LET split(areas) ==
            [cut |-> SumSeq([j \in 1..Len(areas) |-> Max(0, -areas[j])], 1, Len(areas)),
             fill |-> SumSeq([j \in 1..Len(areas) |-> Max(0, areas[j])], 1, Len(areas))]
    IN split(SignedAreas(i, k))

\* segmentLength * 0.5 * (area at start + area at end) of segment i, over
\* the denominator of the volumes
PairVolume(i) ==
    LET trapezoid(len, a, b) == [cut |-> len * (a.cut + b.cut),
                                 fill |-> len * (a.fill + b.fill)]
    IN trapezoid(DistanceTo(points[i], points[i + 1]), EndAreas(i, i), EndAreas(i, i + 1))

\* the consecutive station pairs, and those more than 1e-6 apart
StationPairs == 1..(Len(points) - 1)
LongPairs == {i \in StationPairs : DistanceTo(points[i], points[i + 1]) > Eps6}

\* the volumes of the pairs i .. Len(points) - 1 that are in the set, summed
RECURSIVE PairSum(_, _)
PairSum(pairs, i) ==
    IF i >= Len(points) THEN [cut |-> 0, fill |-> 0]
    ELSE IF i \in pairs THEN addAreas(PairVolume(i), PairSum(pairs, i + 1))
    ELSE PairSum(pairs, i + 1)

\* both totals are at least 0, and an alignment cut down to fewer than two
\* stations has none
TotalsNonNegative ==
    /\ volumes.cut >= 0 /\ volumes.fill >= 0 /\ volumes.den > 0
    /\ \A n \in {0, 1} :
          /\ computeVolumesEndArea(SubSeq(points, 1, n), surface, roadTemplate).cut = 0
          /\ computeVolumesEndArea(SubSeq(points, 1, n), surface, roadTemplate).fill = 0

\* C14 (as claimed): the total cut (fill) volume is the sum over all
\* consecutive station pairs of segmentLength * 0.5 * (cut (fill) area at
\* start + at end), a strip's signed area (design - terrain) * stripWidth
\* counting as fill when positive and as cut by its magnitude otherwise; both
\* totals are non-negative, and 0 for fewer than 2 stations
C14_EndAreaAllPairs ==
    /\ volumes = Over(PairSum(StationPairs, 1), VolumeDen(points))
    /\ TotalsNonNegative

\* C14 (amended): the same, the sum taken over the consecutive station pairs
\* that are more than 1e-6 apart
C14_EndAreaLongPairs ==
    /\ volumes = Over(PairSum(LongPairs, 1), VolumeDen(points))
    /\ TotalsNonNegative

\* C14 witness: after an edit, an alignment with a pair of stations 1e-6
\* apart that has end areas, and another pair that the totals count
C14_Witness ==
    /\ nOps > 0
    /\ \E i \in StationPairs \ LongPairs : PairVolume(i).cut + PairVolume(i).fill > 0
    /\ LongPairs # {}
    /\ volumes.cut > 0
    /\ volumes.fill > 0

\* the estimator's centre elevation at station i, as a grade elevation
EstimatorGrade(i) == [num |-> Ch(0, estimatorZ[i].num), den |-> Ch(0, estimatorZ[i].den)]

\* C15 (as claimed): after any sequence of grade edits, alignment edits and
\* template changes, at every station the design centre elevation used by
\* the volume estimator equals the grade elevation that the corridor sweep
\* and the daylight builder use at that station's chainage
C15_EstimatorUsesCurrentGrade ==
    \A i \in 1..Len(points) : RatEq(EstimatorGrade(i), sweepZ[i])

\* widths and thicknesses of the active template
TemplateSizes(t) ==
    {t.laneWidth, t.kerbWidth, t.kerbHeight, t.footpathWidth,
     t.pavementThickness, t.footpathThickness}

\* C20 (as claimed): after any sequence of Settings Apply, Settings Reset and
\* template loads, every width and thickness of the active road template is
\* non-negative and the daylight slope ratio handed to the builders is
\* positive
C20_TemplateSane ==
    /\ \A size \in TemplateSizes(roadTemplate) : size >= 0
    /\ slopeHtoV > 0

-----------------------------------------------------------------------------
(* Properties of closestPointTo *)

\* the last query and what it returned
Asked == Val(closest).q
Answer == Val(closest).result

\* the ends of the segment the answer names
AnswerA == points[Answer.segmentIndex + 1]
AnswerB == points[Answer.segmentIndex + 2]

\* the returned point lies on the segment whose index is returned
OnItsSegment ==
    /\ Answer.segmentIndex \in 0..(Len(points) - 2)
    /\ VCross(VSub(Answer.point, VScale(AnswerA, Answer.den)), VSub(AnswerB, AnswerA)) = 0
    /\ VDot(VSub(Answer.point, VScale(AnswerA, Answer.den)), VSub(AnswerB, AnswerA)) >= 0
    /\ VDot(VSub(Answer.point, VScale(AnswerB, Answer.den)), VSub(AnswerA, AnswerB)) >= 0

\* the points that divide every segment in Parts equal parts: none of them is
\* strictly closer to the query than the returned point
Parts == 4
NoneCloser ==
    \A i \in 1..(Len(points) - 1), k \in 0..Parts :
        LET onLine == VAdd(VScale(points[i], Parts - k), VScale(points[i + 1], k))
            away == VSub(onLine, VScale(Asked, Parts))
        IN VDot(away, away) * Answer.den * Answer.den >= Answer.d2 * Parts * Parts

\* the tangent is the unit tangent of that segment
UnitTangent ==
    /\ Answer.tangent.dir = VSub(AnswerB, AnswerA)
    /\ Answer.tangent.len * Answer.tangent.len = VDot(Answer.tangent.dir, Answer.tangent.dir)

\* the chainage is that of the segment's start plus the distance from there
\* to the returned point, and lies within the alignment
ChainageAlong ==
    /\ Answer.chainage = cumulative[Answer.segmentIndex + 1] * Answer.den
                         + DistanceTo(AnswerA, AnswerB) * Answer.tNum
    /\ Answer.chainage >= 0
    /\ Answer.chainage <= length * Answer.den

\* C21 (as claimed): for every query point closestPointTo returns a point on
\* the centerline at minimum distance from the query over all segments, with
\* the index of its segment, that segment's unit tangent, the distance, and a
\* chainage equal to the chainage of the segment's start plus the distance
\* along the segment, so that 0 <= chainage <= length()
C21_ClosestPoint ==
    IsDef(closest) => (OnItsSegment /\ NoneCloser /\ UnitTangent /\ ChainageAlong)

-----------------------------------------------------------------------------
(* Properties of what the corridor emits *)

\* the children that belong to a component: its solids and its top strings
ChildrenOf(component) ==
    CASE component = "pavement" -> {"pavement", "stringPavEdgeL", "stringPavEdgeR"}
      [] component = "kerb" -> {"kerbL", "kerbR", "stringKerbTopL", "stringKerbTopR"}
      [] component = "footpath" ->
            {"footpathL", "footpathR", "stringFootOutL", "stringFootOutR"}

Enabled(t, component) ==
    CASE component = "pavement" -> pavEnabled(t)
      [] component = "kerb" -> kerbEnabled(t)
      [] component = "footpath" -> footEnabled(t)

\* C22 (as claimed): for every combination of the enable flags the group
\* holds no solid and no string of a disabled pavement, kerb or footpath, and
\* a centerline of fewer than 2 stations gives an empty group
C22_OnlyEnabledComponents ==
    IsDef(group) =>
        /\ Len(rowZ) < 2 => Val(group) = << >>
        /\ \A component \in {"pavement", "kerb", "footpath"} :
              ~Enabled(roadTemplate, component) =>
                  \A name \in ChildrenOf(component) : ~HasChild(name)

-----------------------------------------------------------------------------
(* Properties of the daylight search: first meeting and termination *)

\* the search found a sign change and bisected it
Reported == pc = "done" /\ iter = BisectIterations

\* f keeps the sign it has right after the start at the distance k and right
\* before it
SameSideAt(k) ==
    /\ fSign(heightFn, startZ, dzPerMeter, D(k, 0))
          = fSign(heightFn, startZ, dzPerMeter, D(0, 1))
    /\ Sgn(fBefore(heightFn, startZ, dzPerMeter, k))
          = fSign(heightFn, startZ, dzPerMeter, D(0, 1))

\* C23 (as claimed): when the search reports an intersection at s*, f has no
\* zero and no sign change at any distance in (0, s*) other than the returned
\* root: up to the last whole distance a unit before s*, f keeps the sign it
\* has right after the start
C23_FirstMeeting ==
    Reported => \A k \in 1..(Val(sStar).i - 1) : SameSideAt(k)

\* b - a in units of 1 / Frac
BracketWidth == (bracketB.i - bracketA.i) * Frac + bracketB.n - bracketA.n

\* the marched samples stay within the maximum distance, a step apart
MarchWithinMax == s0 + step = s1 /\ s1 <= maxDistance

\* during and after the bisection the bracket is the last marched step halved
\* iter times, a < b, with f of different sign at its two ends
BracketKept ==
    (pc = "bisect" \/ (pc = "done" /\ iter > 0)) =>
        /\ iter <= BisectIterations
        /\ DLess(bracketA, bracketB)
        /\ ~DLess(bracketA, D(s0, 0))
        /\ ~DLess(D(s1, 0), bracketB)
        /\ BracketWidth * (2 ^ iter) = step * Frac
        /\ fSign(heightFn, startZ, dzPerMeter, bracketA)
              # fSign(heightFn, startZ, dzPerMeter, bracketB)

\* the returned distance: the maximum distance when the march saw no sign
\* change, otherwise after exactly 24 bisections a distance inside the bracket
ReturnedWithinMax ==
    pc = "done" =>
        /\ IsDef(sStar)
        /\ ~DLess(Val(sStar), D(0, 0))
        /\ ~DLess(D(maxDistance, 0), Val(sStar))
        /\ iter \in {0, BisectIterations}
        /\ iter = 0 => (s1 = maxDistance /\ sStar = Def(D(maxDistance, 0)))
        /\ iter = BisectIterations =>
              (DLess(bracketA, Val(sStar)) /\ DLess(Val(sStar), bracketB))

\* a round of the march moves on by exactly one step; a round of the
\* bisection counts one iteration
LoopsAdvance ==
    /\ (pc = "march" /\ pc' = "march") => (s0' = s1 /\ s1' = s1 + step)
    /\ (pc = "bisect" /\ pc' = "bisect") => iter' = iter + 1

\* C24: for every terrain the search terminates; the marched distance grows
\* by the step up to the maximum distance and never beyond it; the bisection
\* runs exactly 24 iterations, each keeping a bracket a < b inside the last
\* marched step with f of different sign at a and b; and the returned
\* distance s has 0 <= s <= maximum distance
C24_SearchTerminates ==
    /\ [](MarchWithinMax /\ BracketKept /\ ReturnedWithinMax)
    /\ [][LoopsAdvance]_vars
    /\ <>(pc = "done")

\* C24 witness: the terrain is at the design elevation exactly at the edge
\* (f(0) = 0), the march stopped at its first step and 24 bisections were run
C24_Witness ==
    /\ pc = "done"
    /\ fSign(heightFn, startZ, dzPerMeter, D(0, 0)) = 0
    /\ iter = BisectIterations
    /\ DLess(bracketA, bracketB)
    /\ DLess(Val(sStar), D(step, 0))

-----------------------------------------------------------------------------
(* Properties of the per-corner radius overrides *)

\* the step is a call that replaces the IP list
ReplacesIPs == nOps' = nOps + 1 /\ lastOp'.op \in {"setIPs", "buildFromIPs"}

\* index is an interior corner of the IP list l
InteriorOf(l, index) == index >= 1 /\ index <= Len(l) - 2

\* nothing is stored at the first and at the last IP
NoOverrideAtEnds ==
    /\ ArrayGet(cornerRadii, 0) = Undefined
    /\ Len(ips) >= 1 => ArrayGet(cornerRadii, Len(ips) - 1) = Undefined

\* C25 (as claimed): from a freshly constructed Alignment and after any calls
\* of setCornerRadius, setIPs and buildFromIPs, a replacement of the IP list
\* leaves getCornerRadius unchanged at every index that is an interior corner
\* before and after it, and no override is ever stored for the first or the
\* last IP
C25_OverridesSurvive ==
    /\ [][ReplacesIPs =>
             \A index \in 1..4 :
                 (InteriorOf(ips, index) /\ InteriorOf(ips', index)) =>
                     getCornerRadius(index)' = getCornerRadius(index)]_vars
    /\ []NoOverrideAtEnds

-----------------------------------------------------------------------------
(* Properties of alignment creation, the drag and the radius popup *)

\* creation mode was on before the step and the step cancelled it
Cancelled ==
    isCreatingAlignment /\ ~isCreatingAlignment' /\ lastOp'.finished = "cancel"

\* creation mode was on with fewer than 2 new IPs and the step committed it,
\* by a key in the window or the right button
CommittedShort ==
    /\ isCreatingAlignment /\ ~isCreatingAlignment' /\ lastOp'.finished = "commit"
    /\ Len(createdIPs) < 2
    /\ ~radiusPopupEl

\* the IPs, the default radius, the override of every corner and the
\* centerline of the alignment a
Restorable(a) ==
    [ips |-> a.ips, defaultFilletRadius |-> a.defaultFilletRadius,
     radii |-> [index \in 0..4 |-> cornerRadiusOf(a, index)],
     points |-> a.points]

\* C26 (as claimed): a step that cancels alignment creation leaves the IPs,
\* the default radius, the per-corner overrides and the centerline exactly as
\* they were when creation mode was entered; a commit with fewer than 2 new
\* IPs leaves the alignment as it is
C26_CancelRestores ==
    [][/\ Cancelled => Restorable(Alignment)' = Restorable(Val(enteredFrom))
       /\ CommittedShort => Restorable(Alignment)' = Restorable(Alignment)]_vars

\* C27 (as claimed): in every reachable state of the page the orbit controls
\* are disabled whenever creation mode is active or the radius popup is open
C27_ControlsDisabled ==
    (isCreatingAlignment \/ radiusPopupEl) => ~controlsEnabled

-----------------------------------------------------------------------------
(* Properties of consecutive fillets and of the centerline's ends *)

\* the corners at the IPs i and i + 1 (0-based) are both filleted
BothFilleted(i) == At(CurCorners, i).arc /\ At(CurCorners, i + 1).arc

\* on the leg from IP i to IP i + 1, T2 of corner i is not beyond T1 of
\* corner i + 1: from T2 to T1 one moves along the leg, not against it
InLegOrder(i) ==
    LET leg == VSub(At(ips, i + 1), At(ips, i))
        gap == VSub(At(CurCorners, i + 1).T1, At(CurCorners, i).T2)
    IN Sgn(leg.x) * gap.x >= 0 /\ Sgn(leg.y) * gap.y >= 0

\* the tangent lengths of the two corners fit into the leg
TangentsFit(i) ==
    DistanceTo(At(ips, i), At(CurCorners, i).T2)
        + DistanceTo(At(CurCorners, i + 1).T1, At(ips, i + 1))
        <= DistanceTo(At(ips, i), At(ips, i + 1)) + Eps6

\* C28 (as claimed): for every IP list with two consecutive filleted corners
\* the fillets do not overlap on the leg they share: their tangent lengths
\* add up to no more than the leg (to 1e-6), and the outgoing tangency point
\* of the first is not beyond the incoming tangency point of the second
C28_FilletsDoNotOverlap ==
    \A i \in 1..(Len(ips) - 3) : BothFilleted(i) => (TangentsFit(i) /\ InLegOrder(i))

\* consecutive IPs are distinct
DistinctIPs == \A k \in 1..(Len(ips) - 1) : ips[k] # ips[k + 1]

\* C29 (as claimed): for 3 or more IPs, consecutive ones distinct, the
\* centerline the builder returns starts exactly at the first IP and ends
\* exactly at the last IP
C29_CenterlineSpansIPs ==
    (Len(ips) >= 3 /\ DistinctIPs) =>
        /\ CurBuilt # << >>
        /\ CurBuilt[1] = ips[1]
        /\ CurBuilt[Len(CurBuilt)] = ips[Len(ips)]

-----------------------------------------------------------------------------
(* The cross-section overlay's daylight start: computeSection,            *)
(* alignment.ts 1095-1154, against the daylight mesh's edge                *)

\* leftEdgeOffset / rightEdgeOffset, lines 1113-1122 and 1138-1147
sectionEdgeOffset(t, sideSign) ==
    IF footEnabled(t)
    THEN sideSign * (half(t) + (IF kerbEnabled(t) THEN kerbW(t) ELSE 0) + footW(t))
    ELSE IF kerbEnabled(t) THEN sideSign * (half(t) + kerbW(t))
    ELSE sideSign * half(t)

\* leftEdgeZ / rightEdgeZ, lines 1110-1122 and 1135-1147: slopeAt(oPav) is
\* crossfallLane * Math.sign(oPav)
sectionEdgeZ(t, centerZArg, sideSign) ==
    LET oPavement == sideSign * half(t)
        zPavement == centerZArg + (t.crossfallLane * Sgn(oPavement)) * oPavement
        zKerb == zPavement + (IF kerbEnabled(t) THEN kerbH(t) ELSE 0)
    IN IF footEnabled(t) THEN zKerb + (xfallFoot(t) * sideSign) * footW(t)
       ELSE IF kerbEnabled(t) THEN zKerb
       ELSE zPavement

\* C30 (as claimed): for the same centre elevation and template, whatever
\* the kerb and footpath flags, the point the overlay starts a daylight line
\* from has the offset and the design elevation of the daylight mesh's edge
\* vertex on the same side
C30_OverlayMatchesMesh ==
    side = "pushed" =>
        \A sideSign \in {-1, 1} :
            /\ sectionEdgeOffset(roadTemplate, sideSign) = oLast(roadTemplate, sideSign)
            /\ sectionEdgeZ(roadTemplate, zCenter, sideSign)
                  = zEdge(roadTemplate, zCenter, sideSign)

=============================================================================
